---- MODULE Spec2Model ----
(***************************************************************************)
(* Answer-governance pipeline of the multi-tenant chatbot platform         *)
(* (backend/app/chat/router.py :: ask and the functions it calls).         *)
(*                                                                         *)
(* Text is modelled as a sequence of symbols.  A symbol is one character   *)
(* ("[", "]", ":", " ") or an atomic run of characters (an identifier, a   *)
(* word, a fixed sentence); CharLen gives the number of characters a       *)
(* symbol stands for and HasWS tells whether the run contains whitespace.  *)
(***************************************************************************)
EXTENDS Integers, Sequences, FiniteSets, TLC

\* Python's None, for values that are strings
None == "None"

\* None where a name or a text is expected (neither is ever empty)
NoText == <<>>

\* None where a token count is expected
NoTokens == -1

(***************************************************************************)
(* Text helpers                                                            *)
(***************************************************************************)

\* citations.py: REFUSAL_SENTENCE
REFUSAL_SENTENCE == <<"I don't have that information in the provided documents.">>

\* prompting.py: REFUSAL_SENTENCE (the text SYSTEM_PROMPT tells the model to use)
PROMPT_REFUSAL_SENTENCE == <<"I couldn't find that in the available support information yet. If you want, I can connect you to a human agent.">>

\* llm.py: FALLBACK_ANSWER
FALLBACK_ANSWER == <<"I don't have that information in the provided documents.">>

\* router.py: the ceiling of `if len(answer) > 450`
MaxAnswerLen == 450

\* symbols that are prose (they contain blanks inside, none at their ends)
Sentences ==
    { REFUSAL_SENTENCE[1], PROMPT_REFUSAL_SENTENCE[1], "LONG", "FILL" }

CharLen(ch) ==
    CASE ch = REFUSAL_SENTENCE[1] -> 56
      [] ch = PROMPT_REFUSAL_SENTENCE[1] -> 111
      [] ch = "LONG" -> MaxAnswerLen + 1
      [] ch = "FILL" -> MaxAnswerLen - 8
      [] ch \in {"[", "]", ":", " ", "x"} -> 1
      [] OTHER -> 2

HasWS(ch) == ch = " " \/ ch \in Sentences

RECURSIVE StrLen(_)
StrLen(s) == IF s = <<>> THEN 0 ELSE CharLen(Head(s)) + StrLen(Tail(s))

RECURSIVE LStrip(_)
LStrip(s) == IF s # <<>> /\ Head(s) = " " THEN LStrip(Tail(s)) ELSE s

RECURSIVE RStrip(_)
RStrip(s) ==
    IF s # <<>> /\ s[Len(s)] = " " THEN RStrip(SubSeq(s, 1, Len(s) - 1)) ELSE s

\* str.strip()
Strip(s) == LStrip(RStrip(s))

(***************************************************************************)
(* chat/citations.py                                                       *)
(***************************************************************************)

\* _CIT_RE character classes: [^\[\]:\s] (document id) and [^\[\]\s] (chunk id)
InClass(ch, allowColon) ==
    /\ ch \notin {"[", "]"}
    /\ ~HasWS(ch)
    /\ (allowColon \/ ch # ":")

\* first position >= i that is past the end or outside the class
RECURSIVE RunEnd(_, _, _)
RunEnd(s, i, allowColon) ==
    IF i > Len(s) \/ ~InClass(s[i], allowColon)
    THEN i
    ELSE RunEnd(s, i + 1, allowColon)

\* _CIT_RE matched at position i: \[ (class+) : (class+) \]
MatchAt(s, i) ==
    LET j == RunEnd(s, i + 1, FALSE)
        k == RunEnd(s, j + 1, TRUE)
        ok == /\ s[i] = "["
              /\ j > i + 1
              /\ j <= Len(s) /\ s[j] = ":"
              /\ k > j + 1
              /\ k <= Len(s) /\ s[k] = "]"
    IN  [ ok |-> ok,
          document_id |-> IF ok THEN SubSeq(s, i + 1, j - 1) ELSE <<>>,
          chunk_id |-> IF ok THEN SubSeq(s, j + 1, k - 1) ELSE <<>>,
          next |-> IF ok THEN k + 1 ELSE i + 1 ]

\* _CIT_RE.findall: leftmost, non-overlapping matches
RECURSIVE FindAll(_, _)
FindAll(s, i) ==
    IF i > Len(s) THEN <<>>
    ELSE LET m == MatchAt(s, i)
         IN  IF m.ok
             THEN << [document_id |-> m.document_id, chunk_id |-> m.chunk_id] >>
                  \o FindAll(s, m.next)
             ELSE FindAll(s, i + 1)

SeqRange(q) == { q[i] : i \in 1..Len(q) }

\* "de-dup while preserving order"
RECURSIVE DedupFrom(_, _)
DedupFrom(keys, seen) ==
    IF keys = <<>> THEN <<>>
    ELSE IF Head(keys) \in seen
         THEN DedupFrom(Tail(keys), seen)
         ELSE <<Head(keys)>> \o DedupFrom(Tail(keys), seen \cup {Head(keys)})

\* a variant without the de-duplication
extract_citation_keys_all(answer) == FindAll(answer, 1)

extract_citation_keys(answer) == DedupFrom(FindAll(answer, 1), {})

\* a variant that recognises no answer as the refusal
is_refusal_never(answer) == FALSE

is_refusal(answer) == Strip(answer) = REFUSAL_SENTENCE

\* a variant that is content with one valid citation among the keys
validate_citations_any(answer, retrieved_chunks) ==
    LET keys == extract_citation_keys(answer)
        valid == { [document_id |-> retrieved_chunks[i].document_id,
                    chunk_id |-> retrieved_chunks[i].id]
                   : i \in 1..Len(retrieved_chunks) }
    IN  IF is_refusal(answer) THEN [ok |-> TRUE, keys |-> <<>>]
        ELSE IF keys = <<>> THEN [ok |-> FALSE, keys |-> <<>>]
        ELSE IF \A i \in 1..Len(keys) : keys[i] \notin valid
             THEN [ok |-> FALSE, keys |-> keys]
             ELSE [ok |-> TRUE, keys |-> keys]

validate_citations(answer, retrieved_chunks) ==
    LET keys == extract_citation_keys(answer)
        valid == { [document_id |-> retrieved_chunks[i].document_id,
                    chunk_id |-> retrieved_chunks[i].id]
                   : i \in 1..Len(retrieved_chunks) }
    IN  IF is_refusal(answer) THEN [ok |-> TRUE, keys |-> <<>>]
        ELSE IF keys = <<>> THEN [ok |-> FALSE, keys |-> <<>>]
        ELSE IF \E i \in 1..Len(keys) : keys[i] \notin valid
             THEN [ok |-> FALSE, keys |-> keys]
             ELSE [ok |-> TRUE, keys |-> keys]

(***************************************************************************)
(* Questions: a question is a sequence of words.                           *)
(***************************************************************************)

\* str.lower() on a word
Lower(w) == IF w = "Salary" THEN "salary" ELSE w

LowerSeq(q) == [i \in 1..Len(q) |-> Lower(q[i])]

\* number of characters of a word
WordLen(w) ==
    CASE w \in {"i", "?"} -> 1
      [] w \in {"is", "hi", "my", "am", "to", "me"} -> 2
      [] w \in {"bob", "i'm"} -> 3
      [] w \in {"what", "name", "talk", "call"} -> 4
      [] w \in {"human"} -> 5
      [] w \in {"refund", "policy", "salary", "Salary", "thanks"} -> 6
      [] w \in {"weather"} -> 7
      [] w \in {"password"} -> 8
      [] w \in {"resources"} -> 9
      [] OTHER -> 5

\* characters of a text made of words separated by single blanks
RECURSIVE TextLen(_)
TextLen(q) ==
    IF q = <<>> THEN 0
    ELSE WordLen(Head(q)) + (IF Len(q) > 1 THEN 1 ELSE 0) + TextLen(Tail(q))

\* phrase occurs in q as consecutive words starting at position i
PhraseAt(q, i, phrase) ==
    /\ i + Len(phrase) - 1 <= Len(q)
    /\ \A k \in 1..Len(phrase) : q[i + k - 1] = phrase[k]

Contains(q, phrase) == \E i \in 1..Len(q) : PhraseAt(q, i, phrase)

\* a word made of [A-Za-z'\-] only
IsNameWord(w) == w \notin {"?"}

(***************************************************************************)
(* chat/router.py: conversational heuristics                               *)
(***************************************************************************)

\* _NAME_DIRECT_PATTERNS, in order (matched case-insensitively)
NAME_DIRECT_PATTERNS ==
    << <<"my", "name", "is">>, <<"i", "am">>, <<"i'm">>,
       <<"call", "me">>, <<"it's">>, <<"this", "is">> >>

\* prompting.py: the patterns of extract_preferred_name, in order
PREFERRED_NAME_PATTERNS ==
    << <<"my", "name", "is">>, <<"i", "am">>, <<"call", "me">> >>

\* end of the greedy group ([A-Za-z][A-Za-z '\-]{1,40}) started at position i
RECURSIVE NameEnd(_, _)
NameEnd(q, i) ==
    IF i > Len(q) \/ ~IsNameWord(q[i]) THEN i - 1 ELSE NameEnd(q, i + 1)

\* pat.search(text): the leftmost hit of one pattern; group(1) or <<>>
PatternGroup(q, pat) ==
    LET hits == { i \in 1..Len(q) :
                    /\ PhraseAt(LowerSeq(q), i, pat)
                    /\ i + Len(pat) <= Len(q)
                    /\ IsNameWord(q[i + Len(pat)]) }
    IN  IF hits = {} THEN <<>>
        ELSE LET i == CHOOSE h \in hits : \A g \in hits : h <= g
             IN  SubSeq(q, i + Len(pat), NameEnd(q, i + Len(pat)))

\* _normalize_name: None unless 2 <= len <= 40
normalize_name(name) ==
    IF 2 <= TextLen(name) /\ TextLen(name) <= 40 THEN name ELSE NoText

\* first pattern, in order, that hits decides
RECURSIVE FirstPatternName(_, _, _)
FirstPatternName(q, pats, k) ==
    IF k > Len(pats) THEN NoText
    ELSE IF PatternGroup(q, pats[k]) # <<>>
         THEN normalize_name(PatternGroup(q, pats[k]))
         ELSE FirstPatternName(q, pats, k + 1)

extract_name_from_text(question) ==
    IF question = <<>> THEN NoText
    ELSE FirstPatternName(question, NAME_DIRECT_PATTERNS, 1)

\* the name found in one user message by extract_preferred_name: the first
\* pattern whose hit has an acceptable length
RECURSIVE PreferredInText(_, _)
PreferredInText(text, k) ==
    IF k > Len(PREFERRED_NAME_PATTERNS) THEN NoText
    ELSE LET g == PatternGroup(text, PREFERRED_NAME_PATTERNS[k])
         IN  IF g # <<>> /\ normalize_name(g) # NoText
             THEN g
             ELSE PreferredInText(text, k + 1)

\* prompting.py: newest user message that states a name
RECURSIVE extract_preferred_name(_)
extract_preferred_name(messages) ==
    IF messages = <<>> THEN NoText
    ELSE LET m == messages[Len(messages)]
             rest == SubSeq(messages, 1, Len(messages) - 1)
         IN  IF m.role = "user" /\ PreferredInText(m.content, 1) # NoText
             THEN PreferredInText(m.content, 1)
             ELSE extract_preferred_name(rest)

forbidden_tokens ==
    { "how", "what", "why", "when", "where", "who", "can", "could", "would",
      "should", "password", "login", "account", "billing", "support", "help",
      "reset", "change", "human", "agent", "person", "service", "customer",
      "issue", "problem", "my", "name", "is", "i", "am", "to", "the", "a",
      "an", "do", "does" }

is_probable_name_only_reply(question) ==
    IF question = <<>> THEN NoText
    ELSE IF TextLen(question) > 40 THEN NoText
    ELSE IF ~(1 <= Len(question) /\ Len(question) <= 3) THEN NoText
    ELSE IF \E i \in 1..Len(question) : ~IsNameWord(question[i]) THEN NoText
    ELSE IF \E i \in 1..Len(question) : Lower(question[i]) \in forbidden_tokens
         THEN NoText
    ELSE normalize_name(question)

GREETING_WORDS == {"hi", "hello", "hey"}
THANKS_WORDS == {"thanks", "thx", "ty"}
BYE_WORDS == {"bye", "goodbye"}

NAME_REQUEST == "Before we start, what name should I call you?"

\* a variant that takes no question for small talk
small_talk_response_never(question, preferred_name, company_name, bot_name) ==
    NoText

\* _small_talk_response; NoText when the question is not small talk
small_talk_response(question, preferred_name, company_name, bot_name) ==
    IF question = <<>> THEN NoText
    ELSE IF Lower(question[1]) \in GREETING_WORDS
         THEN IF preferred_name # NoText
              THEN <<"Hi ">> \o preferred_name
                   \o <<", welcome to ", company_name, ". I'm ", bot_name,
                        ". I can help with anything. What can I do for you today?">>
              ELSE <<"Welcome to ", company_name, ". I'm ", bot_name, ". ",
                     NAME_REQUEST>>
    ELSE IF \E i \in 1..Len(question) : Lower(question[i]) \in THANKS_WORDS
         THEN <<"You are welcome">>
              \o (IF preferred_name # NoText THEN <<" ">> \o preferred_name ELSE <<>>)
              \o <<". If you need anything else, I am here to help.">>
    ELSE IF \E i \in 1..Len(question) : Lower(question[i]) \in BYE_WORDS
         THEN <<"Got it">>
              \o (IF preferred_name # NoText THEN <<" ">> \o preferred_name ELSE <<>>)
              \o <<". If you need help again, just send a message.">>
    ELSE NoText

HUMAN_FALSE_POSITIVES ==
    { <<"human", "resources">>, <<"hr", "policy">>, <<"human", "rights">> }

HUMAN_INTENT_VERBS == {"speak", "talk", "chat", "connect", "transfer", "escalate"}

HUMAN_INTENT_NOUNS ==
    {"human", "person", "someone", "agent", "representative", "support"}

HUMAN_INTENT_PHRASES ==
    { <<"customer", "service">>, <<"support", "team">>, <<"help", "desk">>,
      <<"live", "agent">>, <<"real", "person">>, <<"human", "agent">> }

HUMAN_INTENT_KEYWORDS ==
    { <<"customer", "service">>, <<"human", "support">>, <<"live", "support">>,
      <<"live", "chat", "agent">>, <<"talk", "to", "support">>,
      <<"speak", "to", "support">>, <<"connect", "me", "to", "support">>,
      <<"transfer", "me">>, <<"escalate", "this">>, <<"real", "person">>,
      <<"someone", "from", "your", "team">> }

\* characters strictly between word i and word j of q (i < j)
GapLen(q, i, j) == IF j = i + 1 THEN 1 ELSE TextLen(SubSeq(q, i + 1, j - 1)) + 2

\* _HUMAN_INTENT_RE.search(q): verb ... noun within 32 characters, or a phrase
\* (its third alternative implies the first)
HumanIntentRe(q) ==
    \/ \E i \in 1..Len(q) : \E j \in (i + 1)..Len(q) :
          /\ q[i] \in HUMAN_INTENT_VERBS
          /\ q[j] \in HUMAN_INTENT_NOUNS
          /\ GapLen(q, i, j) <= 32
    \/ \E ph \in HUMAN_INTENT_PHRASES : Contains(q, ph)

is_human_handoff_intent(question) ==
    LET q == LowerSeq(question)
    IN  IF q = <<>> THEN FALSE
        ELSE IF \E fp \in HUMAN_FALSE_POSITIVES : Contains(q, fp) THEN FALSE
        ELSE IF HumanIntentRe(q) THEN TRUE
        ELSE \E k \in HUMAN_INTENT_KEYWORDS : Contains(q, k)

(***************************************************************************)
(* Bounds of the model                                                     *)
(***************************************************************************)

\* steps of the environment (admin handlers, clock) interleaved with a request
MaxEnvSteps == 1

(***************************************************************************)
(* Tenants, requesters, corpus                                             *)
(***************************************************************************)

Procs == {"p1"}

Tenants == {"t1", "t2"}

\* requesters: an end user (role other than admin) and a tenant admin
U1 == [id |-> "u1", tenant_id |-> "t1", role |-> "user"]
A1 == [id |-> "a1", tenant_id |-> "t1", role |-> "admin"]
Requesters == {U1, A1}
UserIds == {"u1", "a1"}

COMPANY_NAME == "Acme"
BOT_NAME == "AI Assistant"

ConvIds == {"k1", "k2"}
DocIds == {<<"d1">>, <<"d2">>, <<"d3">>}

\* rag/service.py ingest_text_document: a new document is public, untagged
NewDocument(tenant_id) ==
    [tenant_id |-> tenant_id, visibility |-> "public", tags |-> {}]

\* the corpus after ingestion: d1 (two chunks, the second without an
\* embedding) and d2 belong to t1, d3 to t2
InitDocuments ==
    [d \in DocIds |-> NewDocument(IF d = <<"d3">> THEN "t2" ELSE "t1")]

MkChunk(id, tenant_id, document_id, chunk_index, text, embedded) ==
    [id |-> id, tenant_id |-> tenant_id, document_id |-> document_id,
     chunk_index |-> chunk_index, text |-> text, embedded |-> embedded]

InitChunks ==
    { MkChunk(<<"c1">>, "t1", <<"d1">>, 0, <<"refund", "policy">>, TRUE),
      MkChunk(<<"c2">>, "t1", <<"d1">>, 1, <<"refund", "days">>, FALSE),
      MkChunk(<<"c3">>, "t1", <<"d2">>, 0, <<"salary", "policy">>, TRUE),
      MkChunk(<<"c4">>, "t2", <<"d3">>, 0, <<"refund", "policy">>, TRUE) }

(***************************************************************************)
(* State                                                                   *)
(***************************************************************************)

VARIABLES
    documents,       \* documents table: id -> row
    chunks,          \* chunks table: set of rows
    tenant_policies, \* tenant_policies table: tenant -> policy_json
    usage_limits,    \* tenant_usage_limits table: tenant -> row
    usage_events,    \* tenant_usage_events table, in insertion order
    conversations,   \* conversations with their messages: id -> row
    handoffs,        \* handoff_requests table, in insertion order
    audit_log,       \* chat_audit_logs table, in insertion order
    tenant_hits,     \* rate_limit._tenant_hits
    user_hits,       \* rate_limit._user_hits
    now,             \* the clock, in seconds
    env_steps,       \* environment steps taken so far
    call,            \* per request: position in ask and its locals
    sent             \* history: per requester, the times of its requests that
                     \* got to check_rate_limit within the window

vars == << documents, chunks, tenant_policies, usage_limits, usage_events,
           conversations, handoffs, audit_log, tenant_hits, user_hits, now,
           env_steps, call, sent >>

(***************************************************************************)
(* system/rate_limit.py                                                    *)
(***************************************************************************)

WINDOW_SECONDS == 60
MAX_PER_TENANT_PER_WINDOW == 60
MAX_PER_USER_PER_WINDOW == 30

\* _prune: drop the hits older than the window from the left
RECURSIVE prune(_, _)
prune(q, t) ==
    IF q # <<>> /\ Head(q) < t - WINDOW_SECONDS THEN prune(Tail(q), t) ELSE q

\* a variant that checks the requester before the tenant
check_rate_limit_user_first(tenant_id, user_id) ==
    LET tq == prune(tenant_hits[tenant_id], now)
        uq == prune(user_hits[user_id], now)
    IN  IF Len(uq) >= MAX_PER_USER_PER_WINDOW
        THEN [allowed |-> FALSE, reason |-> "rate_limit:user",
              tq |-> tq, uq |-> uq]
        ELSE IF Len(tq) >= MAX_PER_TENANT_PER_WINDOW
        THEN [allowed |-> FALSE, reason |-> "rate_limit:tenant",
              tq |-> tq, uq |-> uq]
        ELSE [allowed |-> TRUE, reason |-> None,
              tq |-> Append(tq, now), uq |-> Append(uq, now)]

\* check_rate_limit: the verdict and the two queues it leaves behind
check_rate_limit(tenant_id, user_id) ==
    LET tq == prune(tenant_hits[tenant_id], now)
        uq == prune(user_hits[user_id], now)
    IN  IF Len(tq) >= MAX_PER_TENANT_PER_WINDOW
        THEN [allowed |-> FALSE, reason |-> "rate_limit:tenant",
              tq |-> tq, uq |-> user_hits[user_id]]
        ELSE IF Len(uq) >= MAX_PER_USER_PER_WINDOW
        THEN [allowed |-> FALSE, reason |-> "rate_limit:user",
              tq |-> Append(tq, now), uq |-> uq]
        ELSE [allowed |-> TRUE, reason |-> None,
              tq |-> Append(tq, now), uq |-> Append(uq, now)]

(***************************************************************************)
(* system/usage_service.py                                                 *)
(***************************************************************************)

DEFAULT_DAILY_REQUEST_LIMIT == 1000
DEFAULT_MONTHLY_TOKEN_LIMIT == 1000000

\* get_or_create_tenant_limit: the row, created with the defaults if missing
tenant_limit(tenant_id) ==
    IF tenant_id \in DOMAIN usage_limits
    THEN usage_limits[tenant_id]
    ELSE [daily_request_limit |-> DEFAULT_DAILY_REQUEST_LIMIT,
          monthly_token_limit |-> DEFAULT_MONTHLY_TOKEN_LIMIT]

RECURSIVE SumTokens(_, _)
SumTokens(events, tenant_id) ==
    IF events = <<>> THEN 0
    ELSE (IF Head(events).tenant_id = tenant_id THEN Head(events).total_tokens ELSE 0)
         + SumTokens(Tail(events), tenant_id)

\* check_tenant_quota (all recorded events lie in the current day and month)
check_tenant_quota(tenant_id) ==
    LET limits == tenant_limit(tenant_id)
        requests_today ==
            Cardinality({ i \in 1..Len(usage_events) :
                            usage_events[i].tenant_id = tenant_id })
        tokens_month == SumTokens(usage_events, tenant_id)
    IN  IF requests_today >= limits.daily_request_limit
        THEN [ok |-> FALSE, reason |-> "quota:daily_requests"]
        ELSE IF tokens_month >= limits.monthly_token_limit
        THEN [ok |-> FALSE, reason |-> "quota:monthly_tokens"]
        ELSE [ok |-> TRUE, reason |-> None]

(***************************************************************************)
(* governance/policy_engine.py                                             *)
(***************************************************************************)

DEFAULT_REFUSAL == "I can't help with that request based on your organization's policy."

\* re.search(pattern, q) for a pattern \b(w1|w2|...)\b, with or without (?i)
RegexSearch(pattern, q) ==
    \E i \in 1..Len(q) :
        (IF pattern.ignorecase THEN Lower(q[i]) ELSE q[i]) \in pattern.words

\* a variant that compares the keywords with the question as typed
RuleMatchesAsTyped(r, q) ==
    \/ /\ r.type = "deny_keywords"
       /\ \E i \in 1..Len(r.keywords) : Contains(q, r.keywords[i])
    \/ /\ r.type = "deny_regex"
       /\ r.pattern.words # {}
       /\ RegexSearch(r.pattern, q)

\* does rule r refuse question q
RuleMatches(r, q) ==
    \/ /\ r.type = "deny_keywords"
       /\ \E i \in 1..Len(r.keywords) :
             Contains(LowerSeq(q), LowerSeq(r.keywords[i]))
    \/ /\ r.type = "deny_regex"
       /\ r.pattern.words # {}
       /\ RegexSearch(r.pattern, q)

RECURSIVE FirstMatch(_, _, _)
FirstMatch(rules, q, refusal_message) ==
    IF rules = <<>> THEN [action |-> "allow", reason |-> None, message |-> None]
    ELSE IF RuleMatches(Head(rules), q)
         THEN [action |-> "refuse",
               reason |-> "policy:" \o Head(rules).type,
               message |-> IF Head(rules).message # None
                           THEN Head(rules).message
                           ELSE refusal_message]
         ELSE FirstMatch(Tail(rules), q, refusal_message)

\* a variant that stops at the first rule instead of the first matching rule
evaluate_question_policy_first_rule(tenant_id, question) ==
    IF tenant_id \in DOMAIN tenant_policies
       /\ tenant_policies[tenant_id].rules # <<>>
    THEN FirstMatch(<< Head(tenant_policies[tenant_id].rules) >>, question,
                    DEFAULT_REFUSAL)
    ELSE [action |-> "allow", reason |-> None, message |-> None]

evaluate_question_policy(tenant_id, question) ==
    LET has == tenant_id \in DOMAIN tenant_policies
        policy == tenant_policies[tenant_id]
        refusal_message ==
            IF has /\ policy.refusal_message # None
            THEN policy.refusal_message
            ELSE DEFAULT_REFUSAL
        rules == IF has THEN policy.rules ELSE <<>>
    IN  FirstMatch(rules, question, refusal_message)

(***************************************************************************)
(* governance/doc_policy.py                                                *)
(***************************************************************************)

\* a variant that looks at the visibility only
DocVerdictVisibilityOnly(d, is_admin) ==
    IF d.visibility = "internal_only" /\ ~is_admin
    THEN [action |-> "refuse", reason |-> "doc_visibility:internal_only",
          message |-> "This information is restricted to admins."]
    ELSE [action |-> "allow", reason |-> None, message |-> None]

\* the verdict on one document
DocVerdict(d, is_admin) ==
    IF d.visibility = "internal_only" /\ ~is_admin
    THEN [action |-> "refuse", reason |-> "doc_visibility:internal_only",
          message |-> "This information is restricted to admins."]
    ELSE IF "hr_only" \in d.tags /\ ~is_admin
    THEN [action |-> "refuse", reason |-> "doc_tag:hr_only",
          message |-> "This information is restricted based on document access rules."]
    ELSE [action |-> "allow", reason |-> None, message |-> None]

\* evaluate_doc_policy over the looked-up rows, in the order returned
RECURSIVE evaluate_doc_policy(_, _)
evaluate_doc_policy(docs, current_user) ==
    IF docs = <<>> THEN [action |-> "allow", reason |-> None, message |-> None]
    ELSE IF DocVerdict(Head(docs), current_user.role = "admin").action = "refuse"
         THEN DocVerdict(Head(docs), current_user.role = "admin")
         ELSE evaluate_doc_policy(Tail(docs), current_user)

(***************************************************************************)
(* rag/service.py: retrieval                                               *)
(***************************************************************************)

\* re.split(r"\W+", q): an apostrophe splits a word into pieces shorter than 3
SplitWords(q) == SelectSeq(q, LAMBDA w : w \notin {"i'm", "it's", "?"})

\* the keywords of _keyword_search_chunks: words of length >= 3, at most 8,
\* or the whole question when no word qualifies
Keywords(q) ==
    LET long == SelectSeq(SplitWords(q), LAMBDA w : WordLen(w) >= 3)
    IN  IF long = <<>> THEN << q >>
        ELSE [i \in 1..(IF Len(long) < 8 THEN Len(long) ELSE 8) |-> << long[i] >>]

\* Chunk.text.ilike('%kw%')
ILike(text, kw) == Contains(LowerSeq(text), LowerSeq(kw))

DocRank(document_id) ==
    CASE document_id = <<"d1">> -> 1
      [] document_id = <<"d2">> -> 2
      [] OTHER -> 3

\* ORDER BY document_id, chunk_index
ChunkBefore(a, b) ==
    \/ DocRank(a.document_id) < DocRank(b.document_id)
    \/ /\ a.document_id = b.document_id
       /\ a.chunk_index < b.chunk_index

RECURSIVE SortChunks(_)
SortChunks(S) ==
    IF S = {} THEN <<>>
    ELSE LET m == CHOOSE a \in S : \A b \in S \ {a} : ChunkBefore(a, b)
         IN  <<m>> \o SortChunks(S \ {m})

Limit(q, n) == SubSeq(q, 1, IF Len(q) < n THEN Len(q) ELSE n)

keyword_search_chunks(tenant_id, question, top_k) ==
    LET kws == Keywords(question)
        hit == { c \in chunks :
                   /\ c.tenant_id = tenant_id
                   /\ \E i \in 1..Len(kws) : ILike(c.text, kws[i]) }
    IN  Limit(SortChunks(hit), top_k)

\* a variant that ranks the chunks without an embedding too
vector_search_chunks_unfiltered(tenant_id, top_k) ==
    LET cand == { c \in chunks : c.tenant_id = tenant_id }
        n == IF Cardinality(cand) < top_k THEN Cardinality(cand) ELSE top_k
    IN  { r \in [1..n -> cand] : \A i, j \in 1..n : i # j => r[i] # r[j] }

\* the rankings the vector search can return: the cosine distances are not
\* modelled, so any order of the tenant's embedded chunks, cut at top_k
vector_search_chunks(tenant_id, top_k) ==
    LET cand == { c \in chunks : c.tenant_id = tenant_id /\ c.embedded }
        n == IF Cardinality(cand) < top_k THEN Cardinality(cand) ELSE top_k
    IN  { r \in [1..n -> cand] : \A i, j \in 1..n : i # j => r[i] # r[j] }

\* search_chunks: the possible results; embed_ok tells whether OPENAI_API_KEY
\* is set and embed_text succeeded
search_chunks(tenant_id, question, top_k, embed_ok) ==
    IF question = <<>> THEN { <<>> }
    ELSE IF ~embed_ok THEN { keyword_search_chunks(tenant_id, question, top_k) }
    ELSE vector_search_chunks(tenant_id, top_k)

(***************************************************************************)
(* chat/llm.py: the generator                                              *)
(***************************************************************************)

\* the citation token [document_id:chunk_id]
CitToken(document_id, chunk_id) ==
    <<"[">> \o document_id \o <<":">> \o chunk_id \o <<"]">>

Cit(d, c) == CitToken(<<d>>, <<c>>)

\* texts the language model may return
ModelTexts ==
    { <<"x", " ">> \o Cit("d1", "c1"),
      <<" ", "x", " ">> \o Cit("d1", "c1") \o <<" ">>,
      <<"x", " ">> \o Cit("d1", "c1") \o <<" ", "x", " ">> \o Cit("d1", "c1"),
      Cit("d2", "c3") \o <<" ">> \o Cit("d1", "c1") \o <<" ">> \o Cit("d2", "c3"),
      <<"x", " ">> \o Cit("d1", "c2"),
      <<"x">>,
      <<" ">>,
      <<>>,
      <<"x", " ">> \o Cit("d9", "c2"),
      <<"x", " ">> \o Cit("d1", "c1") \o <<" ">> \o Cit("d9", "c2"),
      <<"x", " ">> \o Cit("d1", "c3"),
      <<"x", " ", "[", "d1", "]">>,
      <<"x", " ", "[", "d1", ":", "c1", ":", "x", "]">>,
      REFUSAL_SENTENCE,
      <<" ">> \o REFUSAL_SENTENCE \o <<" ">>,
      PROMPT_REFUSAL_SENTENCE,
      REFUSAL_SENTENCE \o <<" ">> \o Cit("d1", "c1"),
      <<"LONG">>,
      <<"LONG", " ">> \o Cit("d1", "c1"),
      <<"LONG", " ">> \o Cit("d9", "c2"),
      <<"FILL", " ">> \o Cit("d1", "c1"),
      <<"FILL", " ", "x">> \o Cit("d1", "c1") }

\* what the call to the model does: a completion with or without usage
\* figures, or one of the API errors generate_answer catches
GenOutcomes ==
    [kind : {"ok"}, content : ModelTexts, total_tokens : {7}]
    \cup [kind : {"ok"}, content : {<<"x", " ">> \o Cit("d1", "c1")}, total_tokens : {NoTokens}]
    \cup [kind : {"error"}, content : {<<>>}, total_tokens : {NoTokens}]

\* a variant without the except clause: what came back is handed on as is
generate_answer_unguarded(o) ==
    [answer |-> o.content, total_tokens |-> o.total_tokens]

\* generate_answer
generate_answer(o) ==
    IF o.kind = "ok"
    THEN [answer |-> o.content, total_tokens |-> o.total_tokens]
    ELSE [answer |-> FALLBACK_ANSWER, total_tokens |-> NoTokens]

(***************************************************************************)
(* chat/router.py: ask, from the generated text to the citations           *)
(***************************************************************************)

\* a variant of the join that never finds the cited chunk
ChunkOfNothing(retrieved, k) ==
    SubSeq(retrieved, 1, 0)

\* chunk_map.get((document_id, chunk_id)): the retrieved chunk of that pair,
\* as a sequence of one element, empty when there is none
ChunkOf(retrieved, k) ==
    LET hits == { i \in 1..Len(retrieved) :
                    /\ retrieved[i].document_id = k.document_id
                    /\ retrieved[i].id = k.chunk_id }
    IN  IF hits = {} THEN <<>>
        ELSE << retrieved[CHOOSE i \in hits : \A j \in hits : j <= i] >>

\* a variant that numbers the cited chunk from one
CitationOneBased(c) ==
    [document_id |-> c.document_id, chunk_id |-> c.id,
     chunk_index |-> c.chunk_index + 1]

\* Citation(document_id=..., chunk_id=..., chunk_index=..., score=None)
Citation(c) ==
    [document_id |-> c.document_id, chunk_id |-> c.id, chunk_index |-> c.chunk_index]

\* "Build citation objects from retrieved chunks"
RECURSIVE JoinCitations(_, _)
JoinCitations(keys, retrieved) ==
    IF keys = <<>> THEN <<>>
    ELSE (IF ChunkOf(retrieved, Head(keys)) # <<>>
          THEN << Citation(ChunkOf(retrieved, Head(keys))[1]) >>
          ELSE <<>>)
         \o JoinCitations(Tail(keys), retrieved)

\* a variant without the guard
LengthGuardOff(answer) == answer

\* the answer after the length guard
LengthGuard(answer) ==
    IF StrLen(answer) > MaxAnswerLen THEN REFUSAL_SENTENCE ELSE answer

\* a variant that also keeps answers whose citations were rejected
CanHealAny(answer, keys) ==
    answer # <<>> /\ answer # REFUSAL_SENTENCE

\* may an answer that failed validation be kept with the top chunk's citation
CanHeal(answer, keys) ==
    answer # <<>> /\ answer # REFUSAL_SENTENCE /\ keys = <<>>

\* router.py lines 547-590: the answer and the citations, given the verdict v
\* of validate_citations and whether the fallback applies
Settle(answer, retrieved, v, heal) ==
    [ ok |-> v.ok,
      citation_fallback_used |-> heal,
      answer |-> IF v.ok THEN answer
                 ELSE IF heal
                 THEN RStrip(answer) \o <<" ">>
                      \o CitToken(retrieved[1].document_id, retrieved[1].id)
                 ELSE REFUSAL_SENTENCE,
      citations |-> IF v.ok THEN JoinCitations(v.keys, retrieved)
                    ELSE IF heal THEN << Citation(retrieved[1]) >>
                    ELSE <<>> ]

\* router.py lines 545-554: validation, and the test for the fallback
Validate(answer, retrieved, v) ==
    Settle(answer, retrieved, v,
           ~v.ok /\ retrieved # <<>> /\ CanHeal(answer, v.keys))

\* router.py lines 538-590: strip, length guard, validation, fallback, join
Ground(raw, retrieved) ==
    Validate(LengthGuard(Strip(raw)), retrieved,
             validate_citations(LengthGuard(Strip(raw)), retrieved))

(***************************************************************************)
(* chat/memory_service.py                                                  *)
(***************************************************************************)

\* a variant that looks the conversation up by id and tenant only
OwnConversationOfTenant(user, conversation_id) ==
    /\ conversation_id \in DOMAIN conversations
    /\ conversations[conversation_id].tenant_id = user.tenant_id

\* the conversation get_or_create_conversation returns: the caller's own
\* conversation of that id, else a new one under an unused id
OwnConversation(user, conversation_id) ==
    /\ conversation_id \in DOMAIN conversations
    /\ conversations[conversation_id].tenant_id = user.tenant_id
    /\ conversations[conversation_id].user_id = user.id

UnusedConvIds == ConvIds \ DOMAIN conversations

NewConversation(user) ==
    [tenant_id |-> user.tenant_id, user_id |-> user.id, ai_paused |-> FALSE,
     last_activity_at |-> now, messages |-> <<>>]

\* fetch_recent_messages: the last `limit` messages (at most 40), oldest first
fetch_recent_messages(messages, limit) ==
    LET n == IF limit > 40 THEN 40 ELSE limit
    IN  IF n <= 0 THEN <<>>
        ELSE SubSeq(messages, IF Len(messages) > n THEN Len(messages) - n + 1 ELSE 1,
                    Len(messages))

Message(role, content) == [role |-> role, content |-> content]

(***************************************************************************)
(* chat/router.py: _respond_and_log                                        *)
(***************************************************************************)

DocCount(retrieved) ==
    Cardinality({ retrieved[i].document_id : i \in 1..Len(retrieved) })

ChunkRefs(retrieved) == [i \in 1..Len(retrieved) |-> Citation(retrieved[i])]

\* the keyword arguments of one call to _respond_and_log; `retrieved` is the
\* retrieval result the exit reports (empty on the exits before retrieval)
Outcome(answer, refused, policy_reason, retrieved, citations, sources, total_tokens) ==
    [ answer |-> answer, refused |-> refused, policy_reason |-> policy_reason,
      retrieved_chunks |-> ChunkRefs(retrieved),
      citations_json |-> citations,
      retrieval_doc_count |-> DocCount(retrieved),
      retrieval_chunk_count |-> Len(retrieved),
      coverage |-> [doc_count |-> DocCount(retrieved), chunk_count |-> Len(retrieved)],
      citations |-> citations,
      sources |-> sources,
      total_tokens |-> total_tokens ]

\* an exit that retrieved nothing (every exit before the document stage)
Bare(answer, refused, policy_reason) ==
    Outcome(answer, refused, policy_reason, <<>>, <<>>, <<>>, 0)

AskResponse(user, payload, cid, o) ==
    [ tenant_id |-> user.tenant_id, user_id |-> user.id,
      question |-> payload.question, conversation_id |-> cid,
      answer |-> o.answer, citations |-> o.citations,
      coverage |-> o.coverage, sources |-> o.sources ]

AuditRow(user, payload, o) ==
    [ tenant_id |-> user.tenant_id, user_id |-> user.id,
      question |-> payload.question, answer |-> o.answer,
      retrieved_chunks |-> o.retrieved_chunks, citations |-> o.citations_json,
      refused |-> o.refused, total_tokens |-> o.total_tokens,
      policy_reason |-> o.policy_reason,
      retrieval_doc_count |-> o.retrieval_doc_count,
      retrieval_chunk_count |-> o.retrieval_chunk_count ]

UsageRow(user, o) ==
    [ tenant_id |-> user.tenant_id, user_id |-> user.id,
      channel |-> "api", refused |-> o.refused,
      total_tokens |-> IF o.total_tokens = NoTokens THEN 0 ELSE o.total_tokens ]

\* the two append_message calls and touch_conversation
Logged(convs, cid, question, answer) ==
    [convs EXCEPT ![cid].messages =
                      @ \o << Message("user", question), Message("assistant", answer) >>,
                  ![cid].last_activity_at = now]

(***************************************************************************)
(* chat/router.py: ask                                                     *)
(***************************************************************************)

PAUSED_ANSWER == <<"A support agent is currently handling this conversation. Please hold while we connect you.">>
RATE_LIMIT_ANSWER == <<"Rate limit exceeded. Please retry shortly.">>
QUOTA_ANSWER == <<"Usage limit reached for this tenant plan. Please contact support.">>
DOC_MISMATCH_ANSWER == <<"Request refused due to document access inconsistency.">>

NameCapturedAnswer(direct_name) ==
    <<"Great to meet you, ">> \o direct_name
    \o <<". Welcome to ", COMPANY_NAME, ". I'm ", BOT_NAME,
         ". What do you need help with today?">>

NameReplyAnswer(maybe_name) ==
    <<"Nice to meet you, ">> \o maybe_name \o <<". How can I help you today?">>

\* a variant that takes the name request for asked on any history
asked_for_name_always(history_messages) == TRUE

\* next((m for m in reversed(history_messages) if m.role == "assistant"), None)
\* and the test "what name should i call you" in its lowered content
asked_for_name(history_messages) ==
    LET idx == { i \in 1..Len(history_messages) :
                   history_messages[i].role = "assistant" }
    IN  /\ idx # {}
        /\ NAME_REQUEST \in
             SeqRange(history_messages[CHOOSE i \in idx : \A j \in idx : j <= i].content)

IdleCall ==
    [ pc |-> "idle", user |-> None, payload |-> None, conversation_id |-> None,
      history_messages |-> <<>>, chunks |-> <<>>, documents |-> {},
      lookup_table |-> None, gen |-> None, outcome |-> None, response |-> None,
      error |-> None, n_retrieval |-> 0, n_doc_policy |-> 0, n_generate |-> 0,
      n_audit |-> 0, steps |-> {} ]

\* the steps of ask between the test of ai_paused and retrieval, in the order
\* of the code: the two limit checks, the four tests on the question (direct
\* name statement, name-only reply, small talk, human intent), the policy
PIPELINE ==
    << "check_rate_limit", "check_tenant_quota", "direct_name", "name_reply",
       "small_talk_response", "is_human_handoff_intent",
       "evaluate_question_policy" >>

\* the first n of them
Steps(n) == { PIPELINE[i] : i \in 1..n }

\* a variant that never finds the conversation paused
ai_paused_never(conversation) == FALSE

\* bool(getattr(conversation, "ai_paused", False))
ai_paused(conversation) == conversation.ai_paused

\* a variant of the paused exit with the bare tag, recorded as refused
PausedOutcomeRefused ==
    Bare(PAUSED_ANSWER, TRUE, "ai_paused")

\* lines 288-304 of ask: the exit of a paused conversation
PausedOutcome ==
    Bare(PAUSED_ANSWER, FALSE, "handoff:ai_paused")

\* lines 346-458 of ask: the exits between the quota check and retrieval.
\* kind is "respond" (with the outcome handed to _respond_and_log), "raise"
\* or "retrieve"; n_steps counts the steps of PIPELINE taken on the way.
AfterQuota(user, payload, history_messages) ==
    LET question == payload.question
        direct_name == extract_name_from_text(question)
        preferred_name == IF direct_name # NoText THEN direct_name
                          ELSE extract_preferred_name(history_messages)
        maybe_name == is_probable_name_only_reply(question)
        small_talk == small_talk_response(question, preferred_name,
                                          COMPANY_NAME, BOT_NAME)
        policy == evaluate_question_policy(user.tenant_id, question)
        respond(o, n) ==
            [kind |-> "respond", outcome |-> o, error |-> None, n_steps |-> n]
    IN  IF direct_name # NoText
        THEN respond(Bare(NameCapturedAnswer(direct_name), FALSE,
                          "conversation:name_captured"), 3)
        ELSE IF preferred_name = NoText /\ asked_for_name(history_messages)
                /\ maybe_name # NoText
        THEN respond(Bare(NameReplyAnswer(maybe_name), FALSE,
                          "conversation:name_reply_captured"), 4)
        ELSE IF small_talk # NoText
        THEN respond(Bare(small_talk, FALSE, "conversation:small_talk"), 5)
        ELSE IF is_human_handoff_intent(question)
        \* source_channel is a local of ask assigned only after the last
        \* return: reading it for create_handoff_request raises
        THEN [kind |-> "raise", outcome |-> None, error |-> "UnboundLocalError",
              n_steps |-> 6]
        ELSE IF policy.action = "refuse"
        THEN respond(Bare(<<policy.message>>, TRUE, policy.reason), 7)
        ELSE [kind |-> "retrieve", outcome |-> None, error |-> None,
              n_steps |-> 7]

\* the exit of a request turned away by the rate limiter
RateLimitOutcome(reason) == Bare(RATE_LIMIT_ANSWER, TRUE, reason)

\* the exit of a request turned away by the quota
QuotaOutcome(reason) == Bare(QUOTA_ANSWER, TRUE, reason)

\* lines 287-458 of ask: the exits taken before retrieval
PreRetrieval(user, payload, conv, history_messages) ==
    LET rl == check_rate_limit(user.tenant_id, user.id)
        quota == check_tenant_quota(user.tenant_id)
        respond(o, n) ==
            [kind |-> "respond", outcome |-> o, error |-> None, n_steps |-> n]
    IN  IF ai_paused(conv)
        THEN respond(PausedOutcome, 0)
        ELSE IF ~rl.allowed
        THEN respond(RateLimitOutcome(rl.reason), 1)
        ELSE IF ~quota.ok
        THEN respond(QuotaOutcome(quota.reason), 2)
        ELSE AfterQuota(user, payload, history_messages)

\* a variant that hands the empty retrieval on as an ordinary answer
NoContextOutcomeUnrefused ==
    Bare(REFUSAL_SENTENCE, FALSE, None)

\* lines 470-485 of ask: "Refuse immediately if no context"
NoContextOutcome ==
    Bare(REFUSAL_SENTENCE, TRUE, "retrieval:no_context")

\* _respond_and_log: the rows written and the response returned
RespondAndLog(p, c, convs, o) ==
    /\ conversations' = Logged(convs, c.conversation_id, c.payload.question, o.answer)
    /\ audit_log' = Append(audit_log, AuditRow(c.user, c.payload, o))
    /\ usage_events' = Append(usage_events, UsageRow(c.user, o))
    /\ call' = [call EXCEPT ![p] =
                  [c EXCEPT !.pc = "done", !.outcome = o, !.n_audit = @ + 1,
                            !.response = AskResponse(c.user, c.payload,
                                                     c.conversation_id, o)]]

\* ask, from its entry to the result of search_chunks (lines 189-485).
\* embed_ok is read by search_chunks only: the exits before retrieval are
\* taken once, under embed_ok.
AskStart(p, user, payload, embed_ok) ==
    /\ call[p].pc = "idle"
    /\ \E cid \in ConvIds :
        /\ IF OwnConversation(user, payload.conversation_id)
           THEN cid = payload.conversation_id
           ELSE /\ UnusedConvIds # {}
                /\ cid = CHOOSE k \in UnusedConvIds : TRUE
        /\ LET convs == IF cid \in DOMAIN conversations
                        THEN conversations
                        ELSE [k \in DOMAIN conversations \cup {cid} |->
                                IF k = cid THEN NewConversation(user)
                                ELSE conversations[k]]
               hist == fetch_recent_messages(convs[cid].messages, payload.memory_turns)
               pre == PreRetrieval(user, payload, convs[cid], hist)
               rl == check_rate_limit(user.tenant_id, user.id)
               c0 == [IdleCall EXCEPT !.user = user, !.payload = payload,
                                      !.conversation_id = cid,
                                      !.history_messages = hist,
                                      !.steps = Steps(pre.n_steps)]
           IN  /\ IF ai_paused(convs[cid])
                  THEN UNCHANGED << tenant_hits, user_hits, usage_limits, sent >>
                  ELSE /\ sent' = [sent EXCEPT ![user.id] = Append(prune(@, now), now)]
                       /\ tenant_hits' = [tenant_hits EXCEPT ![user.tenant_id] = rl.tq]
                       /\ user_hits' = [user_hits EXCEPT ![user.id] = rl.uq]
                       /\ usage_limits' =
                            IF rl.allowed
                            THEN [t \in DOMAIN usage_limits \cup {user.tenant_id} |->
                                    tenant_limit(t)]
                            ELSE usage_limits
               /\ CASE pre.kind = "respond" ->
                        /\ embed_ok
                        /\ RespondAndLog(p, c0, convs, pre.outcome)
                    [] pre.kind = "raise" ->
                        /\ embed_ok
                        /\ conversations' = convs
                        /\ call' = [call EXCEPT ![p] =
                                      [c0 EXCEPT !.pc = "raised", !.error = pre.error]]
                        /\ UNCHANGED << audit_log, usage_events >>
                    [] pre.kind = "retrieve" ->
                        \E r \in search_chunks(user.tenant_id, payload.question,
                                               payload.top_k, embed_ok) :
                          LET c1 == [c0 EXCEPT !.chunks = r, !.n_retrieval = 1]
                          IN  IF r = <<>>
                              THEN RespondAndLog(p, c1, convs, NoContextOutcome)
                              ELSE /\ conversations' = convs
                                   /\ call' = [call EXCEPT ![p] =
                                                 [c1 EXCEPT !.pc = "lookup"]]
                                   /\ UNCHANGED << audit_log, usage_events >>
    /\ UNCHANGED << documents, chunks, tenant_policies, handoffs, now, env_steps >>

\* the rows of the looked-up documents: WHERE id IN doc_ids AND tenant_id = ...
LookupRows(c) ==
    { [id |-> d, tenant_id |-> documents[d].tenant_id,
       visibility |-> documents[d].visibility, tags |-> documents[d].tags]
      : d \in { x \in { c.chunks[i].document_id : i \in 1..Len(c.chunks) } :
                  /\ x \in DOMAIN documents
                  /\ documents[x].tenant_id = c.user.tenant_id } }

\* the orders in which a query without ORDER BY can return a set of rows
Orderings(S) ==
    { r \in [1..Cardinality(S) -> S] :
        \A i, j \in 1..Cardinality(S) : i # j => r[i] # r[j] }

\* ask, the document stage (lines 490-528).  The rows are evaluated in the
\* order the query returns them; the request keeps them as a set, together
\* with the table they were read from.
AskLookup(p) ==
    /\ call[p].pc = "lookup"
    /\ \E docs \in Orderings(LookupRows(call[p])) :
         LET c == [call[p] EXCEPT !.documents = LookupRows(call[p]),
                                  !.lookup_table = documents,
                                  !.n_doc_policy = 1]
             doc_policy == evaluate_doc_policy(docs, c.user)
         IN  IF doc_policy.action = "refuse"
             THEN RespondAndLog(p, c, conversations,
                    Outcome(<<doc_policy.message>>, TRUE, doc_policy.reason,
                            c.chunks, <<>>, <<>>, 0))
             ELSE /\ call' = [call EXCEPT ![p] = [c EXCEPT !.pc = "generate"]]
                  /\ UNCHANGED << conversations, audit_log, usage_events >>
    /\ UNCHANGED << documents, chunks, tenant_policies, usage_limits, handoffs,
                    tenant_hits, user_hits, now, env_steps, sent >>

Sources(retrieved) ==
    [i \in 1..Len(retrieved) |->
        [document_id |-> retrieved[i].document_id, chunk_id |-> retrieved[i].id,
         chunk_index |-> retrieved[i].chunk_index, text |-> retrieved[i].text]]

\* lines 626-644 of ask: the arguments of the last _respond_and_log
GroundedOutcome(retrieved, total_tokens, g) ==
    Outcome(g.answer, is_refusal(g.answer),
            IF g.citation_fallback_used
            THEN "citation_validation:fallback_top_chunk"
            ELSE IF ~g.ok THEN "citation_validation:failed" ELSE None,
            retrieved, g.citations, Sources(retrieved), total_tokens)

\* ask, generation and grounding (lines 533-644)
AskGenerate(p, o) ==
    /\ call[p].pc = "generate"
    /\ RespondAndLog(p, [call[p] EXCEPT !.gen = o, !.n_generate = @ + 1],
                     conversations,
                     GroundedOutcome(call[p].chunks, generate_answer(o).total_tokens,
                                     Ground(generate_answer(o).answer, call[p].chunks)))
    /\ UNCHANGED << documents, chunks, tenant_policies, usage_limits, handoffs,
                    tenant_hits, user_hits, now, env_steps, sent >>

(***************************************************************************)
(* The environment: admin handlers and the clock                           *)
(***************************************************************************)

\* the environment is followed as long as a request has tables left to read
EnvStep == /\ env_steps < MaxEnvSteps
           /\ \E p \in Procs : call[p].pc \in {"idle", "lookup"}
           /\ env_steps' = env_steps + 1

\* admin/router.py delete_document: the chunks and the row, in one commit
DeleteDocument(d, tenant_id) ==
    /\ EnvStep
    /\ d \in DOMAIN documents
    /\ documents[d].tenant_id = tenant_id
    /\ chunks' = { c \in chunks : ~(c.document_id = d /\ c.tenant_id = tenant_id) }
    /\ documents' = [x \in DOMAIN documents \ {d} |-> documents[x]]
    /\ UNCHANGED << tenant_policies, usage_limits, usage_events, conversations,
                    handoffs, audit_log, tenant_hits, user_hits, now, call, sent >>

\* None where a tag list is expected
NoTags == {None}

\* admin/router.py update_document: visibility and tags, each optional
UpdateDocument(d, tenant_id, visibility, tags) ==
    /\ EnvStep
    /\ d \in DOMAIN documents
    /\ documents[d].tenant_id = tenant_id
    /\ ~(visibility = None /\ tags = NoTags)
    /\ documents' = [documents EXCEPT
                       ![d].visibility = IF visibility # None THEN visibility ELSE @,
                       ![d].tags = IF tags # NoTags THEN tags ELSE @]
    /\ UNCHANGED << chunks, tenant_policies, usage_limits, usage_events,
                    conversations, handoffs, audit_log, tenant_hits, user_hits,
                    now, call, sent >>

\* admin/router.py put_policy
PutPolicy(tenant_id, policy) ==
    /\ EnvStep
    /\ tenant_policies' = [t \in DOMAIN tenant_policies \cup {tenant_id} |->
                             IF t = tenant_id THEN policy ELSE tenant_policies[t]]
    /\ UNCHANGED << documents, chunks, usage_limits, usage_events, conversations,
                    handoffs, audit_log, tenant_hits, user_hits, now, call, sent >>

\* admin/router.py put_usage_limits
PutUsageLimits(tenant_id, daily_request_limit, monthly_token_limit) ==
    /\ EnvStep
    /\ usage_limits' = [t \in DOMAIN usage_limits \cup {tenant_id} |->
                          IF t = tenant_id
                          THEN [daily_request_limit |-> daily_request_limit,
                                monthly_token_limit |-> monthly_token_limit]
                          ELSE usage_limits[t]]
    /\ UNCHANGED << documents, chunks, tenant_policies, usage_events,
                    conversations, handoffs, audit_log, tenant_hits, user_hits,
                    now, call, sent >>

\* time.time() advances
Tick(dt) ==
    /\ EnvStep
    /\ now' = now + dt
    /\ UNCHANGED << documents, chunks, tenant_policies, usage_limits,
                    usage_events, conversations, handoffs, audit_log,
                    tenant_hits, user_hits, call, sent >>

(***************************************************************************)
(* Inputs                                                                  *)
(***************************************************************************)

Q_REFUND == <<"what", "is", "refund", "policy">>
Q_SALARY == <<"Salary", "policy">>
Q_PASSWORD == <<"password">>
Q_WEATHER == <<"weather">>
Q_HI == <<"hi">>
Q_THANKS == <<"thanks">>
Q_NAME == <<"my", "name", "is", "bob">>
Q_IM == <<"i'm", "bob">>
Q_BOB == <<"bob">>
Q_HUMAN == <<"talk", "to", "human">>
Q_HR == <<"human", "resources", "policy">>

Questions ==
    { Q_REFUND, Q_SALARY, Q_PASSWORD, Q_WEATHER, Q_HI, Q_THANKS, Q_NAME, Q_IM,
      Q_BOB, Q_HUMAN, Q_HR }

Payload(question, top_k, conversation_id, memory_turns) ==
    [question |-> question, top_k |-> top_k,
     conversation_id |-> conversation_id, memory_turns |-> memory_turns]

\* the requests of the model: who asks what, with which AskRequest fields
AskInputs ==
    { <<U1, Payload(q, 5, None, 8)>> : q \in Questions }
    \cup { <<U1, Payload(q, 5, "k1", 8)>> :
             q \in {Q_REFUND, Q_BOB, Q_HI, Q_THANKS, Q_SALARY} }
    \cup { <<U1, Payload(Q_REFUND, 1, None, 8)>>,
           <<U1, Payload(Q_BOB, 5, "k1", 0)>>,
           <<A1, Payload(Q_REFUND, 5, None, 8)>>,
           <<A1, Payload(Q_REFUND, 5, "k1", 8)>>,
           <<A1, Payload(Q_SALARY, 5, None, 8)>> }

\* a rule without a pattern
NoPattern == [words |-> {}, ignorecase |-> FALSE]

\* a tenant policy: a rule of a type the engine ignores, a keyword rule
\* without a message of its own, a regular-expression rule with one
POLICY_1 ==
    [ refusal_message |-> None,
      rules |-> << [type |-> "note", keywords |-> <<>>, pattern |-> NoPattern,
                    message |-> None],
                   [type |-> "deny_keywords", keywords |-> << <<"salary">> >>,
                    pattern |-> NoPattern, message |-> None],
                   [type |-> "deny_regex", keywords |-> <<>>,
                    pattern |-> [words |-> {"password", "secret"}, ignorecase |-> TRUE],
                    message |-> "Credential-related requests are blocked by policy."] >> ]

\* the document the admin handlers are called on
AdminDocIds == { <<"d2">> }

DocPatches == { <<"internal_only", NoTags>>, <<None, {"hr_only"}>> }

LimitChoices == { <<1, DEFAULT_MONTHLY_TOKEN_LIMIT>>, <<DEFAULT_DAILY_REQUEST_LIMIT, 5>> }

(***************************************************************************)
(* Initial states: the ingested corpus, and the traces earlier requests    *)
(* have left behind                                                        *)
(***************************************************************************)

NoRows == [k \in {} |-> None]

Conv(user, paused, messages) ==
    [tenant_id |-> user.tenant_id, user_id |-> user.id, ai_paused |-> paused,
     last_activity_at |-> 0, messages |-> messages]

Zeros(n) == [i \in 1..n |-> 0]

DefaultLimits ==
    [daily_request_limit |-> DEFAULT_DAILY_REQUEST_LIMIT,
     monthly_token_limit |-> DEFAULT_MONTHLY_TOKEN_LIMIT]

\* the outcome of u1's first "hi": the name request
GreetedOutcome ==
    Bare(small_talk_response(Q_HI, NoText, COMPANY_NAME, BOT_NAME), FALSE,
         "conversation:small_talk")

\* the outcome of u1's "what is refund policy", answered from chunk c1
AnsweredOutcome ==
    LET c == CHOOSE x \in InitChunks : x.id = <<"c1">>
    IN  Outcome(<<"x", " ">> \o Cit("d1", "c1"), FALSE, None, <<c>>,
                << Citation(c) >>, Sources(<<c>>), 7)

\* the state after one request of u1 with the given question and outcome
AfterOneRequest(question, o, paused, hs) ==
    /\ conversations = [k \in {"k1"} |->
          Conv(U1, paused, << Message("user", question), Message("assistant", o.answer) >>)]
    /\ audit_log = << AuditRow(U1, Payload(question, 5, None, 8), o) >>
    /\ usage_events = << UsageRow(U1, o) >>
    /\ usage_limits = [t \in {"t1"} |-> DefaultLimits]
    /\ tenant_hits = [t \in Tenants |-> IF t = "t1" THEN <<0>> ELSE <<>>]
    /\ user_hits = [u \in UserIds |-> IF u = "u1" THEN <<0>> ELSE <<>>]
    /\ sent = [u \in UserIds |-> IF u = "u1" THEN <<0>> ELSE <<>>]
    /\ handoffs = hs

\* the state after requests that raised before any bookkeeping (questions
\* asking for a human): n by u1 and m by a1, all at time 0
AfterRaisedRequests(n, m) ==
    /\ conversations = [k \in (IF m > 0 THEN {"k1", "k2"} ELSE {"k1"}) |->
                          IF k = "k1" THEN Conv(U1, FALSE, <<>>)
                          ELSE Conv(A1, FALSE, <<>>)]
    /\ audit_log = <<>>
    /\ usage_events = <<>>
    /\ usage_limits = [t \in {"t1"} |-> DefaultLimits]
    /\ tenant_hits = [t \in Tenants |-> IF t = "t1" THEN Zeros(n + m) ELSE <<>>]
    /\ user_hits = [u \in UserIds |-> IF u = "u1" THEN Zeros(n) ELSE Zeros(m)]
    /\ sent = [u \in UserIds |-> IF u = "u1" THEN Zeros(n) ELSE Zeros(m)]
    /\ handoffs = <<>>

\* the outcome of a request refused on the requester dimension
UserLimitOutcome == Bare(RATE_LIMIT_ANSWER, TRUE, "rate_limit:user")

\* the two turns such a request appends, n times over
RECURSIVE RefusedTurns(_, _)
RefusedTurns(question, n) ==
    IF n = 0 THEN <<>>
    ELSE << Message("user", question), Message("assistant", RATE_LIMIT_ANSWER) >>
         \o RefusedTurns(question, n - 1)

\* the state after n requests of u1 alone on conversation k1, all at time 0
\* and all asking for a human (n beyond the requester limit): those within
\* the limit raised before any bookkeeping, the others were refused on the
\* requester dimension and logged, each leaving a hit in the tenant window
AfterRequestsOfOne(n) ==
    /\ conversations = [k \in {"k1"} |->
          Conv(U1, FALSE, RefusedTurns(Q_HUMAN, n - MAX_PER_USER_PER_WINDOW))]
    /\ audit_log = [i \in 1..(n - MAX_PER_USER_PER_WINDOW) |->
                      AuditRow(U1, Payload(Q_HUMAN, 5, "k1", 8), UserLimitOutcome)]
    /\ usage_events = [i \in 1..(n - MAX_PER_USER_PER_WINDOW) |->
                         UsageRow(U1, UserLimitOutcome)]
    /\ usage_limits = [t \in {"t1"} |-> DefaultLimits]
    /\ tenant_hits = [t \in Tenants |-> IF t = "t1" THEN Zeros(n) ELSE <<>>]
    /\ user_hits = [u \in UserIds |->
                      IF u = "u1" THEN Zeros(MAX_PER_USER_PER_WINDOW) ELSE <<>>]
    /\ sent = [u \in UserIds |-> IF u = "u1" THEN Zeros(n) ELSE <<>>]
    /\ handoffs = <<>>

Init ==
    /\ documents = InitDocuments
    /\ chunks = InitChunks
    /\ tenant_policies = NoRows
    /\ now = 0
    /\ env_steps = 0
    /\ call = [p \in Procs |-> IdleCall]
    /\ \/ \* nothing has been asked yet
          /\ conversations = NoRows
          /\ audit_log = <<>>
          /\ usage_events = <<>>
          /\ usage_limits = NoRows
          /\ tenant_hits = [t \in Tenants |-> <<>>]
          /\ user_hits = [u \in UserIds |-> <<>>]
          /\ sent = [u \in UserIds |-> <<>>]
          /\ handoffs = <<>>
       \/ \* u1 has said hi and was asked for a name
          AfterOneRequest(Q_HI, GreetedOutcome, FALSE, <<>>)
       \/ \* u1 has got a grounded answer
          AfterOneRequest(Q_REFUND, AnsweredOutcome, FALSE, <<>>)
       \/ \* ... then asked for a handoff on k1, which agent a1 claimed
          AfterOneRequest(Q_REFUND, AnsweredOutcome, TRUE,
             << [id |-> "h1", tenant_id |-> "t1", conversation_id |-> "k1",
                 user_id |-> "u1", status |-> "open",
                 assigned_to_user_id |-> "a1"] >>)
       \/ \* u1 has used up the requester window
          AfterRaisedRequests(MAX_PER_USER_PER_WINDOW, 0)
       \/ \* u1 and a1 together have used up the tenant window
          AfterRaisedRequests(MAX_PER_USER_PER_WINDOW,
                              MAX_PER_TENANT_PER_WINDOW - MAX_PER_USER_PER_WINDOW)
       \/ \* u1 alone has sent as many requests as the tenant window holds
          AfterRequestsOfOne(MAX_PER_TENANT_PER_WINDOW)

Ask(p) ==
    \/ \E in \in AskInputs, embed_ok \in BOOLEAN : AskStart(p, in[1], in[2], embed_ok)
    \/ AskLookup(p)
    \/ \E o \in GenOutcomes : AskGenerate(p, o)

Env ==
    \/ \E d \in AdminDocIds : DeleteDocument(d, "t1")
    \/ \E d \in AdminDocIds, patch \in DocPatches :
          UpdateDocument(d, "t1", patch[1], patch[2])
    \/ PutPolicy("t1", POLICY_1)
    \/ \E l \in LimitChoices : PutUsageLimits("t1", l[1], l[2])
    \/ \E dt \in {WINDOW_SECONDS, WINDOW_SECONDS + 1} : Tick(dt)

Next == (\E p \in Procs : Ask(p)) \/ Env

Spec == Init /\ [][Next]_vars

(***************************************************************************)
(* Properties of ask                                                       *)
(***************************************************************************)

\* the text generate_answer handed to ask in request p
GeneratedRaw(p) == generate_answer(call[p].gen).answer

\* ... after answer.strip()
Generated(p) == Strip(GeneratedRaw(p))

\* the (document_id, chunk_id) pairs of the chunks retrieved for request p
RetrievedPairs(p) ==
    { [document_id |-> call[p].chunks[i].document_id,
       chunk_id |-> call[p].chunks[i].id] : i \in 1..Len(call[p].chunks) }

\* the (document_id, chunk_id) pair a citation names
PairOf(cit) == [document_id |-> cit.document_id, chunk_id |-> cit.chunk_id]

\* request p has returned an AskResponse
Returned(p) == call[p].pc = "done"

\* ... and generate_answer was called on the way
ReturnedGenerated(p) == call[p].pc = "done" /\ call[p].n_generate = 1

\* the counts Coverage reports for the retrieval of request p
RetrievalCoverage(p) ==
    [doc_count |->
        Cardinality({ call[p].chunks[i].document_id : i \in 1..Len(call[p].chunks) }),
     chunk_count |-> Len(call[p].chunks)]

\* every citation of the list names a retrieved pair
AllRetrieved(p, cits) ==
    \A i \in 1..Len(cits) : PairOf(cits[i]) \in RetrievedPairs(p)

\* C1 (as stated): every response whose answer is not the refusal sentence
\* has citations, all of them naming chunks retrieved for that request.
C1_AsStated ==
    \A p \in Procs :
        (Returned(p) /\ call[p].response.answer # REFUSAL_SENTENCE)
        => /\ call[p].response.citations # <<>>
           /\ AllRetrieved(p, call[p].response.citations)

\* C1: every response that comes out of the generation stage with an answer
\* other than the refusal sentence has at least one citation, and each of
\* its citations names a chunk retrieved for that request.
C1_Grounding ==
    \A p \in Procs :
        (ReturnedGenerated(p) /\ call[p].response.answer # REFUSAL_SENTENCE)
        => /\ call[p].response.citations # <<>>
           /\ AllRetrieved(p, call[p].response.citations)

\* a validated answer came back with its citation
C1_Witness ==
    \E p \in Procs :
        /\ ReturnedGenerated(p)
        /\ call[p].response.answer # REFUSAL_SENTENCE
        /\ call[p].outcome.policy_reason = None
        /\ call[p].response.citations # <<>>

\* C2: on every exit of ask, each citation of the response and of the audit
\* row written for the request carries the document id, the chunk id and
\* the chunk index of one of the chunks retrieved for that request.
C2_NoFabricatedCitation ==
    \A p \in Procs :
        Returned(p) =>
            LET real(cits) ==
                    \A i \in 1..Len(cits) : \E j \in 1..Len(call[p].chunks) :
                        /\ cits[i].document_id = call[p].chunks[j].document_id
                        /\ cits[i].chunk_id = call[p].chunks[j].id
                        /\ cits[i].chunk_index = call[p].chunks[j].chunk_index
            IN  /\ real(call[p].response.citations)
                /\ real(audit_log[Len(audit_log)].citations)

\* an answer without citation tokens came back with the citation of the top
\* chunk, in the response and in the audit row
C2_Witness ==
    \E p \in Procs :
        /\ ReturnedGenerated(p)
        /\ call[p].outcome.policy_reason = "citation_validation:fallback_top_chunk"
        /\ Len(call[p].response.citations) = 1
        /\ call[p].response.citations[1].chunk_id = call[p].chunks[1].id
        /\ audit_log[Len(audit_log)].citations = call[p].response.citations

\* the documents behind the chunks of request p that the lookup found
\* restricted: internal_only, or tagged hr_only
RestrictedBacking(p) ==
    { d \in { call[p].chunks[i].document_id : i \in 1..Len(call[p].chunks) } :
        /\ d \in DOMAIN call[p].lookup_table
        /\ call[p].lookup_table[d].tenant_id = call[p].user.tenant_id
        /\ \/ call[p].lookup_table[d].visibility = "internal_only"
           \/ "hr_only" \in call[p].lookup_table[d].tags }

\* the message the document policy gives for a restricted document
RestrictionMessage(row) ==
    IF row.visibility = "internal_only"
    THEN <<"This information is restricted to admins.">>
    ELSE <<"This information is restricted based on document access rules.">>

\* C3: once the documents behind the retrieved chunks have been looked up,
\* if one of them is restricted and the requester is not an admin, the
\* request has ended refused with the message of a restricted document, no
\* citations, no sources, no call to the generator, and a coverage that
\* counts the distinct documents and the chunks of the retrieval.
C3_DocPolicyAllOrNothing ==
    \A p \in Procs :
        (call[p].n_doc_policy = 1 /\ call[p].user.role # "admin"
            /\ RestrictedBacking(p) # {})
        => /\ Returned(p)
           /\ call[p].outcome.refused
           /\ call[p].response.answer \in
                { RestrictionMessage(call[p].lookup_table[d]) : d \in RestrictedBacking(p) }
           /\ call[p].response.citations = <<>>
           /\ call[p].response.sources = <<>>
           /\ call[p].n_generate = 0
           /\ call[p].response.coverage = RetrievalCoverage(p)

\* two documents behind the chunks, exactly one of them internal_only, a
\* requester who is not an admin: refused with doc_count 2
C3_Witness ==
    \E p \in Procs :
        /\ Returned(p)
        /\ call[p].user.role = "user"
        /\ Cardinality(RestrictedBacking(p)) = 1
        /\ call[p].outcome.policy_reason = "doc_visibility:internal_only"
        /\ call[p].outcome.refused
        /\ call[p].response.coverage.doc_count = 2

\* C4: when the lookup returns fewer documents than back the retrieved
\* chunks, the request ends refused with the fixed inconsistency answer, no
\* citations, the coverage of the retrieval, no call to the generator and
\* exactly one audit row, marked refused.
C4_LookupMismatchGuard ==
    \A p \in Procs :
        (call[p].n_doc_policy = 1
            /\ Cardinality(call[p].documents) < RetrievalCoverage(p).doc_count)
        => /\ Returned(p)
           /\ call[p].response.answer = DOC_MISMATCH_ANSWER
           /\ call[p].response.citations = <<>>
           /\ call[p].response.coverage = RetrievalCoverage(p)
           /\ call[p].n_generate = 0
           /\ call[p].n_audit = 1
           /\ audit_log[Len(audit_log)].refused

\* the rules of the policy stored for a tenant
StoredRules(tenant_id) ==
    IF tenant_id \in DOMAIN tenant_policies
    THEN tenant_policies[tenant_id].rules
    ELSE <<>>

\* the message of the first stored rule that denies the question
DenialMessage(tenant_id, question) ==
    LET rules == StoredRules(tenant_id)
        i == CHOOSE n \in 1..Len(rules) :
                /\ RuleMatches(rules[n], question)
                /\ \A m \in 1..(n - 1) : ~RuleMatches(rules[m], question)
    IN  IF rules[i].message # None THEN rules[i].message
        ELSE IF tenant_policies[tenant_id].refusal_message # None
        THEN tenant_policies[tenant_id].refusal_message
        ELSE DEFAULT_REFUSAL

\* the tags of the exits that come before the question policy
EARLIER_EXITS ==
    { "handoff:ai_paused", "rate_limit:tenant", "rate_limit:user",
      "quota:daily_requests", "quota:monthly_tokens",
      "conversation:name_captured", "conversation:name_reply_captured",
      "conversation:small_talk" }

\* request p left ask before the question policy was evaluated
LeftEarlier(c) ==
    \/ c.pc = "raised"
    \/ c.pc = "done" /\ c.outcome.policy_reason \in EARLIER_EXITS

\* C5: a request whose question gets as far as the question policy and
\* matches a deny_keywords or deny_regex rule of its tenant ends refused
\* with the message of the policy, without a call to retrieval or to the
\* generator.
C5_PolicyPrecedence ==
    [][ \A p \in Procs :
          (call[p].pc = "idle" /\ call'[p].pc # "idle"
              /\ ~LeftEarlier(call'[p])
              /\ \E i \in 1..Len(StoredRules(call'[p].user.tenant_id)) :
                    RuleMatches(StoredRules(call'[p].user.tenant_id)[i],
                                call'[p].payload.question))
          => /\ call'[p].pc = "done"
             /\ call'[p].outcome.refused
             /\ call'[p].outcome.policy_reason \in
                    {"policy:deny_keywords", "policy:deny_regex"}
             /\ call'[p].response.answer =
                    << DenialMessage(call'[p].user.tenant_id,
                                     call'[p].payload.question) >>
             /\ call'[p].n_retrieval = 0
             /\ call'[p].n_generate = 0 ]_vars

\* a question with a denied keyword was refused before retrieval
C5_Witness ==
    \E p \in Procs :
        /\ Returned(p)
        /\ call[p].outcome.policy_reason = "policy:deny_keywords"
        /\ call[p].outcome.refused
        /\ call[p].response.answer = << DEFAULT_REFUSAL >>
        /\ call[p].n_retrieval = 0

\* the generated text of request p cites a pair that was not retrieved
CitesUnretrieved(p) ==
    \E i \in 1..Len(FindAll(Generated(p), 1)) :
        FindAll(Generated(p), 1)[i] \notin RetrievedPairs(p)

\* the validation refusal: the refusal sentence alone, nothing cited
ReplacedByRefusal(p) ==
    /\ call[p].response.answer = REFUSAL_SENTENCE
    /\ call[p].response.citations = <<>>
    /\ call[p].outcome.refused

Uncited(p) ==
    /\ Generated(p) # <<>>
    /\ Generated(p) # REFUSAL_SENTENCE
    /\ FindAll(Generated(p), 1) = <<>>

\* the response of request p is the generated answer with the token of the
\* top chunk appended, and that chunk as its only citation
Healed(p) ==
    /\ call[p].response.answer =
          Generated(p) \o <<" ">>
          \o CitToken(call[p].chunks[1].document_id, call[p].chunks[1].id)
    /\ call[p].response.citations =
          << [document_id |-> call[p].chunks[1].document_id,
              chunk_id |-> call[p].chunks[1].id,
              chunk_index |-> call[p].chunks[1].chunk_index] >>
    /\ ~call[p].outcome.refused
    /\ call[p].outcome.policy_reason = "citation_validation:fallback_top_chunk"

\* validation failed for request p and its answer was not replaced
KeptAfterFailure(p) ==
    /\ call[p].outcome.policy_reason # None
    /\ call[p].response.answer # REFUSAL_SENTENCE

\* C7 (as stated): a generated answer that is not empty, not the refusal
\* sentence and has no citation token is kept with the token of the top
\* chunk appended, and no other answer survives a failed validation.
C7_AsStated ==
    \A p \in Procs :
        ReturnedGenerated(p)
        => /\ Uncited(p) => Healed(p)
           /\ KeptAfterFailure(p) => Uncited(p)

\* C7: a generated answer that, once trimmed, is not empty, not the refusal
\* sentence, has no citation token and has at most 450 characters is kept,
\* with one token naming the top retrieved chunk appended, that chunk as the
\* only citation, refused false and the tag
\* citation_validation:fallback_top_chunk; no other answer that failed
\* validation is returned in place of the refusal sentence.
C7_FallbackHealing ==
    \A p \in Procs :
        ReturnedGenerated(p)
        => /\ (Uncited(p) /\ StrLen(Generated(p)) <= MaxAnswerLen) => Healed(p)
           /\ KeptAfterFailure(p)
                => (Uncited(p) /\ StrLen(Generated(p)) <= MaxAnswerLen)

\* an answer without citation tokens came back healed
C7_Witness ==
    \E p \in Procs :
        /\ ReturnedGenerated(p)
        /\ Uncited(p)
        /\ Healed(p)
        /\ Len(call[p].chunks) > 1

\* every citation token of the generated text names a retrieved pair, and
\* there is at least one
CitesOnlyRetrieved(p) ==
    /\ FindAll(GeneratedRaw(p), 1) # <<>>
    /\ \A i \in 1..Len(FindAll(GeneratedRaw(p), 1)) :
          FindAll(GeneratedRaw(p), 1)[i] \in RetrievedPairs(p)

\* position of the first token of the generated text that names pair k
FirstCited(p, k) ==
    CHOOSE n \in 1..Len(FindAll(GeneratedRaw(p), 1)) :
        /\ FindAll(GeneratedRaw(p), 1)[n] = k
        /\ \A m \in 1..(n - 1) : FindAll(GeneratedRaw(p), 1)[m] # k

\* the citations of the response are the pairs cited in the generated text,
\* each once, in the order in which they first appear
DistinctInOrder(p) ==
    LET cits == call[p].response.citations
    IN  /\ { PairOf(cits[i]) : i \in 1..Len(cits) }
              = SeqRange(FindAll(GeneratedRaw(p), 1))
        /\ \A i, j \in 1..Len(cits) :
              i < j => /\ PairOf(cits[i]) # PairOf(cits[j])
                       /\ FirstCited(p, PairOf(cits[i])) < FirstCited(p, PairOf(cits[j]))

\* extracting the citations of the returned answer gives the pairs of the
\* returned citations
ExtractsTheSame(p) ==
    extract_citation_keys(call[p].response.answer)
        = [i \in 1..Len(call[p].response.citations) |->
              PairOf(call[p].response.citations[i])]

\* C8 (as stated): a generated answer whose citation tokens all name
\* retrieved pairs is returned unchanged, refused false, without a tag, its
\* citations being the distinct cited pairs in order of first appearance.
C8_AsStated ==
    \A p \in Procs :
        (ReturnedGenerated(p) /\ CitesOnlyRetrieved(p))
        => /\ call[p].response.answer = GeneratedRaw(p)
           /\ ~call[p].outcome.refused
           /\ call[p].outcome.policy_reason = None
           /\ DistinctInOrder(p)
           /\ ExtractsTheSame(p)

\* C8: a generated answer that has at least one citation token, whose
\* tokens all name retrieved pairs and whose trimmed text has at most 450
\* characters is returned with the surrounding whitespace trimmed and
\* otherwise unchanged, refused false, without a tag; its citations are the
\* distinct cited pairs in order of first appearance, and extracting from
\* the returned answer gives the same list.
C8_GroundedPassThrough ==
    \A p \in Procs :
        (ReturnedGenerated(p) /\ CitesOnlyRetrieved(p)
            /\ StrLen(Generated(p)) <= MaxAnswerLen)
        => /\ call[p].response.answer = Generated(p)
           /\ ~call[p].outcome.refused
           /\ call[p].outcome.policy_reason = None
           /\ DistinctInOrder(p)
           /\ ExtractsTheSame(p)

\* an answer citing one pair twice and another once came back with two
\* citations
C8_Witness ==
    \E p \in Procs :
        /\ ReturnedGenerated(p)
        /\ CitesOnlyRetrieved(p)
        /\ Len(FindAll(GeneratedRaw(p), 1)) = 3
        /\ Len(call[p].response.citations) = 2
        /\ call[p].response.answer = Generated(p)
        /\ ~call[p].outcome.refused

\* C9: whenever retrieval returns nothing, the request has ended with the
\* refusal sentence, refused, without citations, coverage 0 and 0, the tag
\* retrieval:no_context, and neither the document policy nor the generator
\* was called.
C9_NoContext ==
    \A p \in Procs :
        (call[p].n_retrieval = 1 /\ call[p].chunks = <<>>)
        => /\ Returned(p)
           /\ call[p].response.answer = REFUSAL_SENTENCE
           /\ call[p].outcome.refused
           /\ call[p].response.citations = <<>>
           /\ call[p].response.coverage = [doc_count |-> 0, chunk_count |-> 0]
           /\ call[p].outcome.policy_reason = "retrieval:no_context"
           /\ call[p].n_doc_policy = 0
           /\ call[p].n_generate = 0

\* a question no chunk answers was refused for lack of context
C9_Witness ==
    \E p \in Procs :
        /\ Returned(p)
        /\ call[p].n_retrieval = 1
        /\ call[p].chunks = <<>>
        /\ call[p].response.answer = REFUSAL_SENTENCE
        /\ call[p].outcome.policy_reason = "retrieval:no_context"

\* C10: the refusal text of the prompt, the fallback of the generator and
\* the sentence the validator exempts are one literal, so that a generated
\* answer equal to the refusal text of the prompt is returned refused,
\* without citations, and is not healed with the citation of the top chunk.
C10_SingleRefusalSentence ==
    \A p \in Procs :
        (ReturnedGenerated(p) /\ call[p].gen.kind = "ok"
            /\ Generated(p) = PROMPT_REFUSAL_SENTENCE)
        => /\ PROMPT_REFUSAL_SENTENCE = FALLBACK_ANSWER
           /\ FALLBACK_ANSWER = REFUSAL_SENTENCE
           /\ call[p].outcome.refused
           /\ call[p].response.citations = <<>>
           /\ call[p].outcome.policy_reason # "citation_validation:fallback_top_chunk"

\* C11: when the call to the language model fails, generate_answer is called
\* once, returns the refusal sentence without token counts, and ask
\* returns a refused response with that sentence and no citations; the
\* request does not end in an exception.
C11_GeneratorFailureRecovered ==
    \A p \in Procs :
        (call[p].n_generate >= 1 /\ call[p].gen.kind = "error")
        => /\ call[p].n_generate = 1
           /\ generate_answer(call[p].gen)
                = [answer |-> REFUSAL_SENTENCE, total_tokens |-> NoTokens]
           /\ Returned(p)
           /\ call[p].error = None
           /\ call[p].response.answer = REFUSAL_SENTENCE
           /\ call[p].response.citations = <<>>
           /\ call[p].outcome.refused
           /\ audit_log[Len(audit_log)].refused
           /\ audit_log[Len(audit_log)].total_tokens = NoTokens

\* the model call failed and the request came back refused
C11_Witness ==
    \E p \in Procs :
        /\ ReturnedGenerated(p)
        /\ call[p].gen.kind = "error"
        /\ call[p].response.answer = REFUSAL_SENTENCE
        /\ call[p].outcome.refused
        /\ call[p].outcome.total_tokens = NoTokens

\* the fields of an AskResponse
RESPONSE_FIELDS ==
    { "tenant_id", "user_id", "question", "conversation_id", "answer",
      "citations", "coverage", "sources" }

\* C12: every request that has left ask, whichever branch it took, has
\* returned an AskResponse with all its fields; none has ended in an
\* exception.
C12_Totality ==
    \A p \in Procs :
        (call[p].pc \in {"done", "raised"})
        => /\ call[p].pc = "done"
           /\ call[p].error = None
           /\ DOMAIN call[p].response = RESPONSE_FIELDS

\* lines 423-426 of ask: the answer that names the ticket
HandoffAnswer(id) ==
    << "I have connected you to our support team. Please hold while an agent takes over. Ticket ID: ",
       id >>

\* request c returned from one of the exits that come before the test for
\* human intent
ExitedBeforeHandoff(c) ==
    c.pc = "done" /\ c.outcome.policy_reason \in EARLIER_EXITS

\* C13: a request whose question shows human intent and that no earlier
\* exit has answered adds exactly one ticket for its conversation to the
\* handoff requests and returns the answer naming that ticket's id, tagged
\* handoff:auto_intent_detected, without a call to retrieval or to the
\* generator.
C13_HumanIntentHandoff ==
    [][ \A p \in Procs :
          (call[p].pc = "idle" /\ call'[p].pc # "idle"
              /\ is_human_handoff_intent(call'[p].payload.question)
              /\ ~ExitedBeforeHandoff(call'[p]))
          => /\ call'[p].pc = "done"
             /\ Len(handoffs') = Len(handoffs) + 1
             /\ handoffs'[Len(handoffs')].conversation_id = call'[p].conversation_id
             /\ call'[p].response.answer = HandoffAnswer(handoffs'[Len(handoffs')].id)
             /\ call'[p].outcome.policy_reason = "handoff:auto_intent_detected"
             /\ call'[p].n_retrieval = 0
             /\ call'[p].n_generate = 0 ]_vars

\* the messages of conversation cid before the step (none if the step
\* creates the conversation)
MessagesBefore(cid) ==
    IF cid \in DOMAIN conversations THEN conversations[cid].messages ELSE <<>>

\* the step has done the bookkeeping of _respond_and_log for request p,
\* once: the two turns, the touch, one audit row and one usage row that
\* carry the refused flag of the outcome
BookkeptOnce(p) ==
    /\ conversations'[call'[p].conversation_id].messages
          = MessagesBefore(call'[p].conversation_id)
            \o << Message("user", call'[p].payload.question),
                  Message("assistant", call'[p].response.answer) >>
    /\ conversations'[call'[p].conversation_id].last_activity_at = now
    /\ Len(audit_log') = Len(audit_log) + 1
    /\ SubSeq(audit_log', 1, Len(audit_log)) = audit_log
    /\ audit_log'[Len(audit_log')].refused = call'[p].outcome.refused
    /\ audit_log'[Len(audit_log')].answer = call'[p].response.answer
    /\ Len(usage_events') = Len(usage_events) + 1
    /\ SubSeq(usage_events', 1, Len(usage_events)) = usage_events
    /\ usage_events'[Len(usage_events')].refused = call'[p].outcome.refused
    /\ call'[p].n_audit = 1

\* C14: the step with which a request leaves ask, whichever exit it takes,
\* is a return, and with it the request has appended the user turn and the
\* assistant turn to its conversation, touched the conversation and
\* written one audit row and one usage row with the refused flag of the
\* outcome, all exactly once.
C14_IdenticalBookkeeping ==
    [][ \A p \in Procs :
          (call[p].pc \notin {"done", "raised"}
              /\ call'[p].pc \in {"done", "raised"})
          => /\ call'[p].pc = "done"
             /\ BookkeptOnce(p) ]_vars

\* C15: a request on a conversation flagged ai_paused returns the fixed
\* answer that an agent is handling the conversation and does nothing else:
\* the rate-limit windows, the usage limits (whose row the quota check
\* creates) and the handoff requests are as before, none of the steps from
\* the rate-limit check to the question policy has run, and neither
\* retrieval nor the document policy nor the generator was called.
C15_PausedShortCircuit ==
    [][ \A p \in Procs :
          (call[p].pc = "idle" /\ call'[p].pc # "idle"
              /\ call'[p].conversation_id \in DOMAIN conversations
              /\ conversations[call'[p].conversation_id].ai_paused)
          => /\ call'[p].pc = "done"
             /\ call'[p].response.answer = PAUSED_ANSWER
             /\ tenant_hits' = tenant_hits
             /\ user_hits' = user_hits
             /\ usage_limits' = usage_limits
             /\ handoffs' = handoffs
             /\ call'[p].steps = {}
             /\ call'[p].n_retrieval = 0
             /\ call'[p].n_doc_policy = 0
             /\ call'[p].n_generate = 0 ]_vars

\* a request on the paused conversation got the fixed answer, the window of
\* its requester still holding the one earlier hit
C15_Witness ==
    \E p \in Procs :
        /\ Returned(p)
        /\ conversations[call[p].conversation_id].ai_paused
        /\ call[p].response.answer = PAUSED_ANSWER
        /\ call[p].steps = {}
        /\ user_hits[call[p].user.id] = <<0>>
        /\ tenant_hits[call[p].user.tenant_id] = <<0>>

\* request p got to check_rate_limit as the n-th request of its requester
\* within the window
NthInWindow(p, n) ==
    /\ call[p].pc # "idle"
    /\ call[p].steps # {}
    /\ Len(sent[call[p].user.id]) = n

\* no other requester has sent a request within the window
AloneInWindow(p) ==
    \A u \in UserIds \ {call[p].user.id} : sent[u] = <<>>

\* request p was refused by the rate limiter with the given tag
RateLimited(p, tag) ==
    /\ Returned(p)
    /\ call[p].outcome.refused
    /\ call[p].response.answer = RATE_LIMIT_ANSWER
    /\ call[p].outcome.policy_reason = tag

\* C16 (as stated): the 61st request of one requester within a rate-limit
\* window is refused with the tag rate_limit:user.
C16_AsStated ==
    \A p \in Procs :
        NthInWindow(p, 61) => RateLimited(p, "rate_limit:user")

\* C16: of the requests one requester sends within a rate-limit window,
\* starting from empty windows and alone in its tenant, the 31st to the 60th
\* are refused with the tag rate_limit:user and the 61st is refused with the
\* tag rate_limit:tenant.
C16_ScenarioE ==
    \A p \in Procs :
        /\ NthInWindow(p, MAX_PER_TENANT_PER_WINDOW + 1)
              => RateLimited(p, "rate_limit:tenant")
        /\ ((\E n \in (MAX_PER_USER_PER_WINDOW + 1)..MAX_PER_TENANT_PER_WINDOW :
                    NthInWindow(p, n))
              /\ AloneInWindow(p))
              => RateLimited(p, "rate_limit:user")

\* the 61st request of u1, alone in the tenant, was refused on the tenant
\* dimension
C16_Witness ==
    \E p \in Procs :
        /\ NthInWindow(p, MAX_PER_TENANT_PER_WINDOW + 1)
        /\ AloneInWindow(p)
        /\ RateLimited(p, "rate_limit:tenant")
        /\ Len(user_hits[call[p].user.id]) = MAX_PER_USER_PER_WINDOW

\* C17: every response whose answer is the refusal sentence was recorded as
\* refused, in the outcome, in the audit row and in the usage row, whichever
\* exit produced the sentence.
C17_RefusalPurity ==
    \A p \in Procs :
        (Returned(p) /\ call[p].response.answer = REFUSAL_SENTENCE)
        => /\ call[p].outcome.refused
           /\ audit_log[Len(audit_log)].answer = REFUSAL_SENTENCE
           /\ audit_log[Len(audit_log)].refused
           /\ usage_events[Len(usage_events)].refused

\* the model itself answered with the refusal sentence, set in blanks, and
\* the response went out refused
C17_Witness ==
    \E p \in Procs :
        /\ ReturnedGenerated(p)
        /\ call[p].gen.kind = "ok"
        /\ GeneratedRaw(p) # REFUSAL_SENTENCE
        /\ Generated(p) = REFUSAL_SENTENCE
        /\ call[p].response.answer = REFUSAL_SENTENCE
        /\ call[p].outcome.refused
        /\ call[p].outcome.policy_reason = None

\* the tags ask hands to _respond_and_log, but for the one of the paused exit
\* (doc_tag:<tag> exists for the tag hr_only alone)
TAXONOMY ==
    { "rate_limit:tenant", "rate_limit:user",
      "quota:daily_requests", "quota:monthly_tokens",
      "policy:deny_keywords", "policy:deny_regex",
      "doc_visibility:internal_only", "doc_tag:hr_only",
      "retrieval:no_context",
      "citation_validation:failed", "citation_validation:fallback_top_chunk",
      "handoff:auto_intent_detected",
      "conversation:small_talk", "conversation:name_captured",
      "conversation:name_reply_captured" }

\* the tags ask records together with refused = False
UNREFUSED_TAGS ==
    { "handoff:ai_paused", "handoff:auto_intent_detected",
      "conversation:small_talk", "conversation:name_captured",
      "conversation:name_reply_captured",
      "citation_validation:fallback_top_chunk" }

\* the audit row of request p, the last written
Recorded(p) == audit_log[Len(audit_log)]

\* C18 (as stated): the policy_reason recorded for a request is absent or a
\* tag of the taxonomy, ai_paused among them; the paused exit is recorded
\* with the tag ai_paused; every tagged outcome is recorded as refused.
C18_AsStated ==
    \A p \in Procs :
        Returned(p)
        => /\ Recorded(p).policy_reason \in {None, "ai_paused"} \cup TAXONOMY
           /\ Recorded(p).answer = PAUSED_ANSWER
                => Recorded(p).policy_reason = "ai_paused"
           /\ Recorded(p).policy_reason # None => Recorded(p).refused

\* C18: the policy_reason recorded for a request is absent or a tag of the
\* taxonomy, with handoff:ai_paused in the place of ai_paused; the paused
\* exit, and no other, is recorded with the tag handoff:ai_paused; a tagged
\* outcome is recorded as refused unless its tag is one of handoff:ai_paused,
\* handoff:auto_intent_detected, conversation:small_talk,
\* conversation:name_captured, conversation:name_reply_captured and
\* citation_validation:fallback_top_chunk, which are recorded as not refused.
C18_Taxonomy ==
    \A p \in Procs :
        Returned(p)
        => /\ Recorded(p).policy_reason = call[p].outcome.policy_reason
           /\ Recorded(p).policy_reason
                \in {None, "handoff:ai_paused"} \cup TAXONOMY
           /\ Recorded(p).answer = PAUSED_ANSWER
                <=> Recorded(p).policy_reason = "handoff:ai_paused"
           /\ Recorded(p).policy_reason # None
                => (Recorded(p).refused
                      <=> Recorded(p).policy_reason \notin UNREFUSED_TAGS)

\* the paused exit was recorded with its tag, not refused
C18_Witness ==
    \E p \in Procs :
        /\ Returned(p)
        /\ Recorded(p).answer = PAUSED_ANSWER
        /\ Recorded(p).policy_reason = "handoff:ai_paused"
        /\ ~Recorded(p).refused

\* the question opens with a greeting or holds a word of thanks or farewell
SmallTalk(question) ==
    /\ question # <<>>
    /\ \/ Lower(question[1]) \in GREETING_WORDS
       \/ \E i \in 1..Len(question) :
             Lower(question[i]) \in THANKS_WORDS \cup BYE_WORDS

\* the question of request c falls in a conversational category: it states
\* a name, it is a bare name given in reply to the request for one, it is
\* small talk, or it asks for a human
Conversational(c) ==
    \/ extract_name_from_text(c.payload.question) # NoText
    \/ /\ extract_preferred_name(c.history_messages) = NoText
       /\ asked_for_name(c.history_messages)
       /\ is_probable_name_only_reply(c.payload.question) # NoText
    \/ SmallTalk(c.payload.question)
    \/ is_human_handoff_intent(c.payload.question)

\* the document policy allowed the documents looked up for request c, in
\* whichever order the lookup returned them
DocPolicyAllowed(c) ==
    \A docs \in Orderings(c.documents) :
        evaluate_doc_policy(docs, c.user).action = "allow"

\* C19: a request whose question falls in a conversational category has
\* left ask without the question policy, retrieval, the document policy or
\* the generator having been called; in every request the generator is
\* called at most once, and only after retrieval returned chunks and the
\* document policy allowed their documents.
C19_ShortCircuitOrdering ==
    \A p \in Procs :
        call[p].pc # "idle"
        => /\ Conversational(call[p])
                => /\ call[p].pc \in {"done", "raised"}
                   /\ "evaluate_question_policy" \notin call[p].steps
                   /\ call[p].n_retrieval = 0
                   /\ call[p].n_doc_policy = 0
                   /\ call[p].n_generate = 0
           /\ call[p].n_generate <= 1
           /\ call[p].n_generate = 1
                => /\ call[p].n_retrieval = 1
                   /\ call[p].chunks # <<>>
                   /\ call[p].n_doc_policy = 1
                   /\ DocPolicyAllowed(call[p])

\* a bare name given in reply to the request for one was taken as the name,
\* past the limit checks and short of the question policy
C19_Witness ==
    \E p \in Procs :
        /\ Returned(p)
        /\ Conversational(call[p])
        /\ call[p].outcome.policy_reason = "conversation:name_reply_captured"
        /\ call[p].steps = Steps(4)
        /\ call[p].n_retrieval = 0
        /\ call[p].n_generate = 0

\* the generated text of request p, trimmed, is longer than the ceiling
Overlong(p) == StrLen(Generated(p)) > MaxAnswerLen

\* C20: a generated answer longer than 450 characters once trimmed comes
\* back as the refusal sentence, without citations and refused, whether
\* its citation tokens are valid or not; and since the guard comes before
\* validation and healing, without a citation_validation tag.
C20_LengthGuard ==
    \A p \in Procs :
        (ReturnedGenerated(p) /\ Overlong(p))
        => /\ call[p].response.answer = REFUSAL_SENTENCE
           /\ call[p].response.citations = <<>>
           /\ call[p].outcome.refused
           /\ call[p].outcome.policy_reason = None

\* an answer of 451 characters whose one citation is valid was replaced
C20_Witness ==
    \E p \in Procs :
        /\ ReturnedGenerated(p)
        /\ StrLen(Generated(p)) = MaxAnswerLen + 1
        /\ CitesOnlyRetrieved(p)
        /\ call[p].response.answer = REFUSAL_SENTENCE
        /\ call[p].response.citations = <<>>
        /\ call[p].outcome.refused

(***************************************************************************)
(* evaluate_question_policy on its own: stored policies of up to two       *)
(* rules, each question of the model                                       *)
(***************************************************************************)

\* rules a tenant may store: the three of POLICY_1, a keyword rule with
\* three keywords and a message, a case-sensitive pattern, a rule without pattern
PolicyRules ==
    { POLICY_1.rules[1], POLICY_1.rules[2], POLICY_1.rules[3],
      [type |-> "deny_keywords",
       keywords |-> << <<"weather">>, <<"policy">>, <<"password">> >>,
       pattern |-> NoPattern, message |-> "Ask your manager."],
      [type |-> "deny_regex", keywords |-> <<>>,
       pattern |-> [words |-> {"salary"}, ignorecase |-> FALSE], message |-> None],
      [type |-> "deny_regex", keywords |-> <<>>, pattern |-> NoPattern,
       message |-> None] }

\* rule lists of up to MaxRules rules
MaxRules == 2

RuleLists == UNION { [1..n -> PolicyRules] : n \in 0..MaxRules }

PolicyTables ==
    { NoRows }
    \cup { [t \in {"t1"} |-> [refusal_message |-> m, rules |-> rs]] :
             m \in {None, "Not allowed here."}, rs \in RuleLists }

\* nothing has been asked yet, whatever policy is stored
NothingAsked ==
    /\ documents = InitDocuments
    /\ chunks = InitChunks
    /\ now = 0
    /\ env_steps = 0
    /\ conversations = NoRows
    /\ audit_log = <<>>
    /\ usage_events = <<>>
    /\ usage_limits = NoRows
    /\ tenant_hits = [t \in Tenants |-> <<>>]
    /\ user_hits = [u \in UserIds |-> <<>>]
    /\ sent = [u \in UserIds |-> <<>>]
    /\ handoffs = <<>>

PolicyInit ==
    /\ NothingAsked
    /\ tenant_policies \in PolicyTables
    /\ call = [p \in Procs |-> IdleCall]

\* one call of evaluate_question_policy; the request record keeps the
\* arguments and, as outcome, the PolicyResult
EvaluatePolicy(p, user, question) ==
    /\ call[p].pc = "idle"
    /\ call' = [call EXCEPT ![p] =
                  [IdleCall EXCEPT !.pc = "evaluated", !.user = user,
                                   !.payload = Payload(question, 5, None, 8),
                                   !.outcome = evaluate_question_policy(user.tenant_id,
                                                                        question)]]
    /\ UNCHANGED << documents, chunks, tenant_policies, usage_limits, usage_events,
                    conversations, handoffs, audit_log, tenant_hits, user_hits,
                    now, env_steps, sent >>

PolicyNext == \E p \in Procs, q \in Questions : EvaluatePolicy(p, U1, q)

SpecPolicy == PolicyInit /\ [][PolicyNext]_vars

\* rule r denies question q: one of its keywords, case-folded, occurs in the
\* case-folded question, or its pattern is found in the question as typed
Denies(r, q) ==
    \/ /\ r.type = "deny_keywords"
       /\ \E i \in 1..Len(r.keywords) :
             \E at \in 1..Len(q) :
                PhraseAt(LowerSeq(q), at, LowerSeq(r.keywords[i]))
    \/ /\ r.type = "deny_regex"
       /\ \E i \in 1..Len(q) :
             \/ q[i] \in r.pattern.words
             \/ r.pattern.ignorecase /\ Lower(q[i]) \in r.pattern.words

\* the stored rules that deny q, by position
Denying(rules, q) == { i \in 1..Len(rules) : Denies(rules[i], q) }

\* the first of them
FirstDenying(rules, q) ==
    CHOOSE i \in Denying(rules, q) : \A j \in Denying(rules, q) : i <= j

\* the refusal message of the tenant, or the default
TenantRefusal(tenant_id) ==
    IF tenant_id \in DOMAIN tenant_policies
       /\ tenant_policies[tenant_id].refusal_message # None
    THEN tenant_policies[tenant_id].refusal_message
    ELSE DEFAULT_REFUSAL

\* the verdict first-match-wins prescribes for rule r
VerdictOf(r, tenant_id) ==
    [action |-> "refuse", reason |-> "policy:" \o r.type,
     message |-> IF r.message # None THEN r.message ELSE TenantRefusal(tenant_id)]

\* C21: evaluate_question_policy refuses with the type and the message (or,
\* without one, the tenant's refusal message) of the first stored rule that
\* denies the question, and allows exactly when no stored rule denies it,
\* as when the tenant has no rules.
C21_FirstMatchWins ==
    \A p \in Procs :
        call[p].pc = "evaluated"
        => IF Denying(StoredRules(call[p].user.tenant_id),
                      call[p].payload.question) = {}
           THEN call[p].outcome.action = "allow"
           ELSE call[p].outcome =
                  VerdictOf(StoredRules(call[p].user.tenant_id)
                              [FirstDenying(StoredRules(call[p].user.tenant_id),
                                            call[p].payload.question)],
                            call[p].user.tenant_id)

\* two stored rules deny the question and the verdict is that of the first,
\* with the tenant's refusal message in place of the one the rule lacks
C21_Witness ==
    \E p \in Procs :
        /\ call[p].pc = "evaluated"
        /\ Denying(StoredRules("t1"), call[p].payload.question) = {1, 2}
        /\ StoredRules("t1")[1].message = None
        /\ StoredRules("t1")[2].message # None
        /\ call[p].outcome.reason = "policy:" \o StoredRules("t1")[1].type
        /\ call[p].outcome.message = "Not allowed here."

(***************************************************************************)
(* Concurrent requests.  ask is a plain def: the server runs each request  *)
(* on a thread of its pool, and neither rate_limit.py nor _respond_and_log *)
(* takes a lock.  Each step below is one statement, or one commit, of a    *)
(* thread; the steps of two threads interleave freely.                     *)
(***************************************************************************)

Threads == {"p1", "p2"}

\* both threads serve u1 on conversation k1, with a question that ends in
\* one of the exits before retrieval
ThreadInputs == { <<U1, Payload(q, 5, "k1", 8)>> : q \in {Q_THANKS, Q_HI} }

\* the state in which u1's window and the tenant's window have one slot left
OneSlotLeft ==
    AfterRaisedRequests(MAX_PER_USER_PER_WINDOW - 1,
                        MAX_PER_TENANT_PER_WINDOW - MAX_PER_USER_PER_WINDOW)

\* the state in which nothing was asked and the admin has set the daily
\* limit of t1 to one request
OneRequestLeft ==
    /\ conversations = NoRows
    /\ audit_log = <<>>
    /\ usage_events = <<>>
    /\ usage_limits = [t \in {"t1"} |->
                         [daily_request_limit |-> 1,
                          monthly_token_limit |-> DEFAULT_MONTHLY_TOKEN_LIMIT]]
    /\ tenant_hits = [t \in Tenants |-> <<>>]
    /\ user_hits = [u \in UserIds |-> <<>>]
    /\ sent = [u \in UserIds |-> <<>>]
    /\ handoffs = <<>>

ThreadsInit ==
    /\ documents = InitDocuments
    /\ chunks = InitChunks
    /\ tenant_policies = NoRows
    /\ now = 0
    /\ env_steps = 0
    /\ call = [p \in Threads |-> IdleCall]
    /\ \/ OneSlotLeft
       \/ OneRequestLeft
       \/ AfterOneRequest(Q_REFUND, AnsweredOutcome, FALSE, <<>>)

\* ask, lines 189-304: get_or_create_conversation (which commits a new
\* conversation), fetch_recent_messages and the test of ai_paused
ThreadEnter(p, user, payload) ==
    /\ call[p].pc = "idle"
    /\ \E cid \in ConvIds :
        /\ IF OwnConversation(user, payload.conversation_id)
           THEN cid = payload.conversation_id
           ELSE /\ UnusedConvIds # {}
                /\ cid = CHOOSE k \in UnusedConvIds : TRUE
        /\ LET convs == IF cid \in DOMAIN conversations
                        THEN conversations
                        ELSE [k \in DOMAIN conversations \cup {cid} |->
                                IF k = cid THEN NewConversation(user)
                                ELSE conversations[k]]
               hist == fetch_recent_messages(convs[cid].messages, payload.memory_turns)
               c0 == [IdleCall EXCEPT !.user = user, !.payload = payload,
                                      !.conversation_id = cid,
                                      !.history_messages = hist]
           IN  /\ conversations' = convs
               /\ call' = [call EXCEPT ![p] =
                             IF ai_paused(convs[cid])
                             THEN [c0 EXCEPT !.pc = "append_user",
                                             !.outcome = PausedOutcome]
                             ELSE [c0 EXCEPT !.pc = "tenant_window"]]
    /\ UNCHANGED << documents, chunks, tenant_policies, usage_limits,
                    usage_events, handoffs, audit_log, tenant_hits, user_hits,
                    now, env_steps, sent >>

\* check_rate_limit, lines 18-23: _prune(tq, now) and the test of len(tq)
TenantWindow(p) ==
    /\ call[p].pc = "tenant_window"
    /\ LET c == call[p]
           tq == prune(tenant_hits[c.user.tenant_id], now)
       IN  /\ tenant_hits' = [tenant_hits EXCEPT ![c.user.tenant_id] = tq]
           /\ sent' = [sent EXCEPT ![c.user.id] = Append(prune(@, now), now)]
           /\ call' = [call EXCEPT ![p] =
                         IF Len(tq) >= MAX_PER_TENANT_PER_WINDOW
                         THEN [c EXCEPT !.pc = "append_user", !.steps = Steps(1),
                                        !.outcome = RateLimitOutcome("rate_limit:tenant")]
                         ELSE [c EXCEPT !.pc = "tenant_hit"]]
    /\ UNCHANGED << documents, chunks, tenant_policies, usage_limits,
                    usage_events, conversations, handoffs, audit_log, user_hits,
                    now, env_steps >>

\* check_rate_limit, line 25: tq.append(now)
TenantHit(p) ==
    /\ call[p].pc = "tenant_hit"
    /\ tenant_hits' = [tenant_hits EXCEPT ![call[p].user.tenant_id] = Append(@, now)]
    /\ call' = [call EXCEPT ![p].pc = "user_window"]
    /\ UNCHANGED << documents, chunks, tenant_policies, usage_limits,
                    usage_events, conversations, handoffs, audit_log, user_hits,
                    now, env_steps, sent >>

\* check_rate_limit, lines 27-30: _prune(uq, now) and the test of len(uq)
UserWindow(p) ==
    /\ call[p].pc = "user_window"
    /\ LET c == call[p]
           uq == prune(user_hits[c.user.id], now)
       IN  /\ user_hits' = [user_hits EXCEPT ![c.user.id] = uq]
           /\ call' = [call EXCEPT ![p] =
                         IF Len(uq) >= MAX_PER_USER_PER_WINDOW
                         THEN [c EXCEPT !.pc = "append_user", !.steps = Steps(1),
                                        !.outcome = RateLimitOutcome("rate_limit:user")]
                         ELSE [c EXCEPT !.pc = "user_hit"]]
    /\ UNCHANGED << documents, chunks, tenant_policies, usage_limits,
                    usage_events, conversations, handoffs, audit_log,
                    tenant_hits, now, env_steps, sent >>

\* check_rate_limit, lines 32-33: uq.append(now) and return True
UserHit(p) ==
    /\ call[p].pc = "user_hit"
    /\ user_hits' = [user_hits EXCEPT ![call[p].user.id] = Append(@, now)]
    /\ call' = [call EXCEPT ![p].pc = "quota", ![p].steps = Steps(1)]
    /\ UNCHANGED << documents, chunks, tenant_policies, usage_limits,
                    usage_events, conversations, handoffs, audit_log,
                    tenant_hits, now, env_steps, sent >>

\* ask, lines 326-458: check_tenant_quota, which reads the usage events
\* committed so far, then the tests on the question, which read the locals
\* of the request only
QuotaCheck(p) ==
    /\ call[p].pc = "quota"
    /\ LET c == call[p]
           quota == check_tenant_quota(c.user.tenant_id)
           post == AfterQuota(c.user, c.payload, c.history_messages)
       IN  /\ post.kind # "retrieve"
           /\ usage_limits' = [t \in DOMAIN usage_limits \cup {c.user.tenant_id} |->
                                 tenant_limit(t)]
           /\ call' = [call EXCEPT ![p] =
                         IF ~quota.ok
                         THEN [c EXCEPT !.pc = "append_user", !.steps = Steps(2),
                                        !.outcome = QuotaOutcome(quota.reason)]
                         ELSE IF post.kind = "raise"
                         THEN [c EXCEPT !.pc = "raised", !.error = post.error,
                                        !.steps = Steps(post.n_steps)]
                         ELSE [c EXCEPT !.pc = "append_user",
                                        !.steps = Steps(post.n_steps),
                                        !.outcome = post.outcome]]
    /\ UNCHANGED << documents, chunks, tenant_policies, usage_events,
                    conversations, handoffs, audit_log, tenant_hits, user_hits,
                    now, env_steps, sent >>

\* _respond_and_log, line 234: append_message(role="user") and its commit
AppendUser(p) ==
    /\ call[p].pc = "append_user"
    /\ conversations' =
         [conversations EXCEPT ![call[p].conversation_id].messages =
            Append(@, Message("user", call[p].payload.question))]
    /\ call' = [call EXCEPT ![p].pc = "append_assistant"]
    /\ UNCHANGED << documents, chunks, tenant_policies, usage_limits,
                    usage_events, handoffs, audit_log, tenant_hits, user_hits,
                    now, env_steps, sent >>

\* _respond_and_log, line 240: append_message(role="assistant") and its commit
AppendAssistant(p) ==
    /\ call[p].pc = "append_assistant"
    /\ conversations' =
         [conversations EXCEPT ![call[p].conversation_id].messages =
            Append(@, Message("assistant", call[p].outcome.answer))]
    /\ call' = [call EXCEPT ![p].pc = "write_rows"]
    /\ UNCHANGED << documents, chunks, tenant_policies, usage_limits,
                    usage_events, handoffs, audit_log, tenant_hits, user_hits,
                    now, env_steps, sent >>

\* _respond_and_log, lines 246-285: touch_conversation, write_chat_audit_log,
\* write_usage_event and the response
WriteRows(p) ==
    /\ call[p].pc = "write_rows"
    /\ LET c == call[p]
       IN  /\ conversations' =
                [conversations EXCEPT ![c.conversation_id].last_activity_at = now]
           /\ audit_log' = Append(audit_log, AuditRow(c.user, c.payload, c.outcome))
           /\ usage_events' = Append(usage_events, UsageRow(c.user, c.outcome))
           /\ call' = [call EXCEPT ![p] =
                         [c EXCEPT !.pc = "done", !.n_audit = @ + 1,
                                   !.response = AskResponse(c.user, c.payload,
                                                            c.conversation_id,
                                                            c.outcome)]]
    /\ UNCHANGED << documents, chunks, tenant_policies, usage_limits, handoffs,
                    tenant_hits, user_hits, now, env_steps, sent >>

ThreadsNext ==
    \E p \in Threads :
        \/ \E in \in ThreadInputs : ThreadEnter(p, in[1], in[2])
        \/ TenantWindow(p)
        \/ TenantHit(p)
        \/ UserWindow(p)
        \/ UserHit(p)
        \/ QuotaCheck(p)
        \/ AppendUser(p)
        \/ AppendAssistant(p)
        \/ WriteRows(p)

SpecThreads == ThreadsInit /\ [][ThreadsNext]_vars

\* the hits of a window that lie within the last WINDOW_SECONDS
InWindow(q) == Len(prune(q, now))

\* C22: under any interleaving of concurrent check_rate_limit calls, the hits
\* admitted within one window never exceed the per-requester limit nor the
\* per-tenant limit
C22_RateLimitAtomic ==
    /\ \A u \in UserIds : InWindow(user_hits[u]) <= MAX_PER_USER_PER_WINDOW
    /\ \A t \in Tenants : InWindow(tenant_hits[t]) <= MAX_PER_TENANT_PER_WINDOW

\* the requests in flight that have passed check_tenant_quota and have not
\* yet written their usage event
PassedQuota(tenant_id) ==
    { p \in Threads : /\ call[p].pc \in {"append_user", "append_assistant", "write_rows"}
                      /\ "direct_name" \in call[p].steps
                      /\ call[p].user.tenant_id = tenant_id }

\* the usage events of the tenant recorded so far (all of the current day)
RequestsToday(tenant_id) ==
    Cardinality({ i \in 1..Len(usage_events) :
                    usage_events[i].tenant_id = tenant_id })

\* C23: under concurrent calls to ask for one tenant, the calls that have
\* passed the daily-request quota check, those recorded and those in flight
\* together, never exceed the tenant's daily_request_limit
C23_QuotaAtomic ==
    \A t \in Tenants :
        PassedQuota(t) # {} =>
            RequestsToday(t) + Cardinality(PassedQuota(t))
                <= tenant_limit(t).daily_request_limit

\* the turns of conversation k in the order they were committed
Turns(k) == conversations[k].messages

\* C24: for any interleaving of concurrent calls on one conversation, every
\* assistant turn comes right after a user turn, and the assistant turn of a
\* call comes right after the user turn of that same call
C24_PairNotSplit ==
    /\ \A k \in DOMAIN conversations :
         \A i \in 1..Len(Turns(k)) :
            Turns(k)[i].role = "assistant" =>
                i > 1 /\ Turns(k)[i - 1].role = "user"
    /\ \A p \in Threads :
         call[p].pc \in {"write_rows", "done"} =>
            \E i \in 2..Len(Turns(call[p].conversation_id)) :
                /\ Turns(call[p].conversation_id)[i] =
                       Message("assistant", call[p].outcome.answer)
                /\ Turns(call[p].conversation_id)[i - 1] =
                       Message("user", call[p].payload.question)

(***************************************************************************)
(* The name-request protocol                                               *)
(***************************************************************************)

\* _GREETING_RE matches the question
Greeting(question) ==
    question # <<>> /\ Lower(question[1]) \in GREETING_WORDS

\* request p got past the two limit checks to the tests on the question
ReachedQuestionTests(p) ==
    call[p].pc # "idle" /\ "direct_name" \in call[p].steps

\* the name ask knows in request p: stated in the question, else found in
\* the history window by extract_preferred_name
KnownName(p) ==
    IF extract_name_from_text(call[p].payload.question) # NoText
    THEN extract_name_from_text(call[p].payload.question)
    ELSE extract_preferred_name(call[p].history_messages)

\* the answer of request p is the name-request prompt
AskedTheName(p) ==
    /\ call[p].pc = "done"
    /\ call[p].outcome.policy_reason = "conversation:small_talk"
    /\ NAME_REQUEST \in SeqRange(call[p].outcome.answer)

\* the question of request p was accepted as a name-only reply
NameReplyCaptured(p) ==
    /\ call[p].pc = "done"
    /\ call[p].outcome.policy_reason = "conversation:name_reply_captured"

\* the most recent assistant turn of the history window is a name-request
\* prompt
PromptedForName(history_messages) ==
    \E i \in 1..Len(history_messages) :
        /\ history_messages[i].role = "assistant"
        /\ NAME_REQUEST \in SeqRange(history_messages[i].content)
        /\ \A j \in (i + 1)..Len(history_messages) :
              history_messages[j].role # "assistant"

\* a name-only reply is accepted only after a name-request prompt, and
\* without one the short reply goes on to the small-talk test
NameReplyOnlyWhenAsked(p) ==
    /\ NameReplyCaptured(p) => PromptedForName(call[p].history_messages)
    /\ ( /\ ReachedQuestionTests(p)
         /\ is_probable_name_only_reply(call[p].payload.question) # NoText
         /\ extract_name_from_text(call[p].payload.question) = NoText
         /\ ~PromptedForName(call[p].history_messages) )
       => /\ ~NameReplyCaptured(p)
          /\ "small_talk_response" \in call[p].steps

\* C25 (as stated): every greeting with no known name yields the name-request
\* prompt; a name-only reply is accepted only when the most recent assistant
\* turn of the history window is such a prompt, and otherwise continues
C25_AsStated ==
    \A p \in Procs :
        /\ ( ReachedQuestionTests(p) /\ Greeting(call[p].payload.question)
             /\ KnownName(p) = NoText ) => AskedTheName(p)
        /\ NameReplyOnlyWhenAsked(p)

\* C25: a greeting with no known name yields the name-request prompt unless
\* it is itself taken as the name-only reply to a name-request prompt; a
\* name-only reply is accepted only when the most recent assistant turn of
\* the history window is such a prompt, and otherwise continues
C25_NameRequestProtocol ==
    \A p \in Procs :
        /\ ( ReachedQuestionTests(p) /\ Greeting(call[p].payload.question)
             /\ KnownName(p) = NoText /\ ~NameReplyCaptured(p) )
           => AskedTheName(p)
        /\ NameReplyOnlyWhenAsked(p)

\* a name-only reply right after the name-request prompt was accepted
C25_Witness ==
    \E p \in Procs :
        /\ NameReplyCaptured(p)
        /\ call[p].payload.question = Q_BOB
        /\ call[p].history_messages =
             << Message("user", Q_HI), Message("assistant", GreetedOutcome.answer) >>

(***************************************************************************)
(* Retrieval on its own: search_chunks over the ingested corpus            *)
(***************************************************************************)

\* the largest top_k asked for (the tenant t1 has three chunks)
MaxTopK == 3

\* a requester of the other tenant
U2 == [id |-> "u2", tenant_id |-> "t2", role |-> "user"]

SearchInit ==
    /\ NothingAsked
    /\ tenant_policies = NoRows
    /\ call = [p \in Procs |-> IdleCall]

\* one call of search_chunks(db, tenant_id, question, top_k)
SearchChunks(p, user, question, top_k, embed_ok) ==
    /\ call[p].pc = "idle"
    /\ \E r \in search_chunks(user.tenant_id, question, top_k, embed_ok) :
          call' = [call EXCEPT ![p] =
                     [IdleCall EXCEPT !.pc = "searched", !.user = user,
                                      !.payload = Payload(question, top_k, None, 8),
                                      !.chunks = r, !.n_retrieval = 1]]
    /\ UNCHANGED << documents, chunks, tenant_policies, usage_limits,
                    usage_events, conversations, handoffs, audit_log,
                    tenant_hits, user_hits, now, env_steps, sent >>

SearchNext ==
    \E p \in Procs, user \in {U1, U2}, q \in Questions, top_k \in 1..MaxTopK,
       embed_ok \in BOOLEAN :
        SearchChunks(p, user, q, top_k, embed_ok)

SpecSearch == SearchInit /\ [][SearchNext]_vars

\* r holds rows of the chunks table, all of the tenant, at most top_k of them
ScopedResult(r, tenant_id, top_k) ==
    /\ Len(r) <= top_k
    /\ \A i \in 1..Len(r) : r[i] \in chunks /\ r[i].tenant_id = tenant_id

\* r is in the order of (document_id, chunk_index)
InDocumentOrder(r) ==
    \A i, j \in 1..Len(r) :
        i < j => \/ DocRank(r[i].document_id) < DocRank(r[j].document_id)
                 \/ /\ r[i].document_id = r[j].document_id
                    /\ r[i].chunk_index < r[j].chunk_index

\* C26: search_chunks returns at most top_k chunks, all of the requesting
\* tenant; on the embedding path only chunks with a stored embedding, on the
\* keyword path chunks in the order of (document_id, chunk_index)
C26_RetrievalScoping ==
    [][ \A p \in Procs, user \in {U1, U2}, q \in Questions,
           top_k \in 1..MaxTopK, embed_ok \in BOOLEAN :
          SearchChunks(p, user, q, top_k, embed_ok) =>
            /\ ScopedResult(call'[p].chunks, user.tenant_id, top_k)
            /\ embed_ok => \A i \in 1..Len(call'[p].chunks) :
                              call'[p].chunks[i].embedded
            /\ ~embed_ok => InDocumentOrder(call'[p].chunks) ]_vars

\* the keyword path returned a chunk without an embedding, cut at top_k, while
\* the tenant has a third chunk that matches
C26_Witness ==
    \E p \in Procs :
        /\ call[p].pc = "searched"
        /\ call[p].payload.top_k = 2
        /\ Len(call[p].chunks) = 2
        /\ call[p].chunks[1].id = <<"c1">>
        /\ call[p].chunks[2].id = <<"c2">>
        /\ ~call[p].chunks[2].embedded
        /\ call[p].payload.question = Q_REFUND

(***************************************************************************)
(* The budget of the rate limiter                                          *)
(***************************************************************************)

\* the hits of queue q that count at time t
HitsAt(q, t) == Len(prune(q, t))

\* request p is turned away by check_rate_limit in this step
RejectedByRateLimit(p) ==
    /\ call[p].pc = "idle"
    /\ call'[p].pc = "done"
    /\ call'[p].outcome.policy_reason \in {"rate_limit:tenant", "rate_limit:user"}

\* C27: a call to check_rate_limit that is rejected on either dimension
\* leaves the hit counters of the tenant and of the requester unchanged
C27_RejectedConsumeNothing ==
    [][ \A p \in Procs :
          RejectedByRateLimit(p) =>
            /\ \A t \in Tenants :
                 HitsAt(tenant_hits'[t], now') = HitsAt(tenant_hits[t], now)
            /\ \A u \in UserIds :
                 HitsAt(user_hits'[u], now') = HitsAt(user_hits[u], now) ]_vars

(***************************************************************************)
(* Conversations of other requesters                                       *)
(***************************************************************************)

\* the outcome of "my name is bob"
NamedOutcome ==
    Bare(NameCapturedAnswer(<<"bob">>), FALSE, "conversation:name_captured")

\* the state after one request "my name is bob" of the given requester, which
\* opened conversation k1 (the window of u2, who sends nothing more, is left
\* out of user_hits)
AfterNameOf(user) ==
    /\ conversations = [k \in {"k1"} |->
          Conv(user, FALSE, << Message("user", Q_NAME),
                               Message("assistant", NamedOutcome.answer) >>)]
    /\ audit_log = << AuditRow(user, Payload(Q_NAME, 5, None, 8), NamedOutcome) >>
    /\ usage_events = << UsageRow(user, NamedOutcome) >>
    /\ usage_limits = [t \in {user.tenant_id} |-> DefaultLimits]
    /\ tenant_hits = [t \in Tenants |-> IF t = user.tenant_id THEN <<0>> ELSE <<>>]
    /\ user_hits = [u \in UserIds |-> IF u = user.id THEN <<0>> ELSE <<>>]
    /\ sent = [u \in UserIds |-> IF u = user.id THEN <<0>> ELSE <<>>]
    /\ handoffs = <<>>

IsolationInit ==
    /\ documents = InitDocuments
    /\ chunks = InitChunks
    /\ tenant_policies = NoRows
    /\ now = 0
    /\ env_steps = 0
    /\ call = [p \in Procs |-> IdleCall]
    /\ \E owner \in {U1, A1, U2} : AfterNameOf(owner)

SpecIsolation == IsolationInit /\ [][Next]_vars

\* conversation k belongs to the requester
OwnedBy(k, user) ==
    /\ conversations[k].tenant_id = user.tenant_id
    /\ conversations[k].user_id = user.id

\* ask starts request p in this step
Starts(p) == call[p].pc = "idle" /\ call'[p].pc # "idle"

\* C28: get_or_create_conversation returns an existing conversation only
\* when its tenant and its user both equal the caller's; on the id of a
\* conversation of another tenant or user, ask reads no history of that
\* conversation, appends no turn to it and works on a new conversation of
\* the caller
C28_ConversationIsolation ==
    [][ \A p \in Procs :
          /\ Starts(p) =>
               LET user == call'[p].user
                   asked == call'[p].payload.conversation_id
                   cid == call'[p].conversation_id
               IN  /\ cid \in DOMAIN conversations =>
                        cid = asked /\ OwnedBy(cid, user)
                   /\ (asked \in DOMAIN conversations /\ ~OwnedBy(asked, user)) =>
                        /\ cid \notin DOMAIN conversations
                        /\ call'[p].history_messages = <<>>
                        /\ conversations'[cid].tenant_id = user.tenant_id
                        /\ conversations'[cid].user_id = user.id
          /\ \A k \in DOMAIN conversations :
               (call'[p].pc # "idle" /\ conversations'[k] # conversations[k]) =>
                   /\ k = call'[p].conversation_id
                   /\ OwnedBy(k, call'[p].user) ]_vars

\* u1 greeted on the id of the conversation in which u2 of tenant t2 stated
\* a name: the turns went to a new conversation and the name was not known
C28_Witness ==
    \E p \in Procs :
        /\ call[p].pc = "done"
        /\ call[p].user = U1
        /\ call[p].payload.conversation_id = "k1"
        /\ call[p].payload.question = Q_HI
        /\ conversations["k1"].tenant_id = "t2"
        /\ Len(conversations["k1"].messages) = 2
        /\ call[p].conversation_id = "k2"
        /\ Len(conversations["k2"].messages) = 2
        /\ NAME_REQUEST \in SeqRange(call[p].outcome.answer)

(***************************************************************************)
(* Names captured earlier in a conversation                                *)
(***************************************************************************)

\* the state after u1 greeted, was asked for a name and replied "bob"
AfterNameReply ==
    /\ conversations = [k \in {"k1"} |->
          Conv(U1, FALSE,
               << Message("user", Q_HI), Message("assistant", GreetedOutcome.answer),
                  Message("user", Q_BOB),
                  Message("assistant", NameReplyAnswer(Q_BOB)) >>)]
    /\ audit_log =
         << AuditRow(U1, Payload(Q_HI, 5, None, 8), GreetedOutcome),
            AuditRow(U1, Payload(Q_BOB, 5, "k1", 8),
                     Bare(NameReplyAnswer(Q_BOB), FALSE,
                          "conversation:name_reply_captured")) >>
    /\ usage_events =
         << UsageRow(U1, GreetedOutcome),
            UsageRow(U1, Bare(NameReplyAnswer(Q_BOB), FALSE,
                              "conversation:name_reply_captured")) >>
    /\ usage_limits = [t \in {"t1"} |-> DefaultLimits]
    /\ tenant_hits = [t \in Tenants |-> IF t = "t1" THEN Zeros(2) ELSE <<>>]
    /\ user_hits = [u \in UserIds |-> IF u = "u1" THEN Zeros(2) ELSE <<>>]
    /\ sent = [u \in UserIds |-> IF u = "u1" THEN Zeros(2) ELSE <<>>]
    /\ handoffs = <<>>

NamesInit ==
    /\ documents = InitDocuments
    /\ chunks = InitChunks
    /\ tenant_policies = NoRows
    /\ now = 0
    /\ env_steps = 0
    /\ call = [p \in Procs |-> IdleCall]
    /\ \/ \* u1 said "my name is bob"
          AfterOneRequest(Q_NAME, NamedOutcome, FALSE, <<>>)
       \/ \* u1 said "i'm bob"
          AfterOneRequest(Q_IM, NamedOutcome, FALSE, <<>>)
       \/ AfterNameReply

SpecNames == NamesInit /\ [][Next]_vars

\* the names captured by the user turns of a history window: the turns ask
\* acknowledged with the answer of the name_captured or the
\* name_reply_captured exit
CapturedNames(history_messages) ==
    { extract_name_from_text(history_messages[i].content) :
        i \in { j \in 1..(Len(history_messages) - 1) :
                  /\ history_messages[j].role = "user"
                  /\ extract_name_from_text(history_messages[j].content) # NoText
                  /\ history_messages[j + 1] =
                       Message("assistant", NameCapturedAnswer(
                           extract_name_from_text(history_messages[j].content))) } }
    \cup
    { is_probable_name_only_reply(history_messages[i].content) :
        i \in { j \in 1..(Len(history_messages) - 1) :
                  /\ history_messages[j].role = "user"
                  /\ is_probable_name_only_reply(history_messages[j].content) # NoText
                  /\ history_messages[j + 1] =
                       Message("assistant", NameReplyAnswer(
                           is_probable_name_only_reply(history_messages[j].content))) } }

\* C29: once a call has captured a name, a later greeting on the same
\* conversation whose history window holds that user turn gets the
\* personalized welcome with that name, and not the name-request prompt
C29_NamesRemembered ==
    \A p \in Procs :
        ( /\ ReachedQuestionTests(p)
          /\ Greeting(call[p].payload.question)
          /\ CapturedNames(call[p].history_messages) # {} )
        => /\ call[p].pc = "done"
           /\ ~AskedTheName(p)
           /\ \E name \in CapturedNames(call[p].history_messages) :
                call[p].outcome.answer =
                    small_talk_response(call[p].payload.question, name,
                                        COMPANY_NAME, BOT_NAME)

(***************************************************************************)
(* handoff/router.py: tickets, claim and ai-toggle                         *)
(***************************************************************************)

\* tickets opened on one run
MaxTickets == 2

TicketIds == << "h1", "h2", "h3" >>

\* _is_admin
is_admin(user) == user.role = "admin"

\* admin/rbac.py: the roles whose scopes include handoff:write
HANDOFF_WRITE_ROLES == {"admin", "support"}

\* require_scope(current_user, "handoff:write") passes
MayWriteHandoffs(user) == user.role \in HANDOFF_WRITE_ROLES

\* a support agent of tenant t1
S1 == [id |-> "s1", tenant_id |-> "t1", role |-> "support"]

\* the rows select(HandoffRequest) finds by id within the caller's tenant
TicketsOf(handoff_id, current_user) ==
    { i \in 1..Len(handoffs) : /\ handoffs[i].id = handoff_id
                               /\ handoffs[i].tenant_id = current_user.tenant_id }

\* the conversation of a ticket as claim_handoff and handoff_ai_toggle look
\* it up: by id within the caller's tenant
TicketConversation(row, current_user) ==
    { k \in DOMAIN conversations : /\ k = row.conversation_id
                                   /\ conversations[k].tenant_id = current_user.tenant_id }

\* request_handoff: create_handoff_request stores a new, unassigned ticket
RequestHandoff(current_user, conversation_id) ==
    /\ Len(handoffs) < MaxTickets
    /\ handoffs' = Append(handoffs,
          [id |-> TicketIds[Len(handoffs) + 1], tenant_id |-> current_user.tenant_id,
           conversation_id |-> conversation_id, user_id |-> current_user.id,
           status |-> "new", assigned_to_user_id |-> None])
    /\ UNCHANGED << documents, chunks, tenant_policies, usage_limits,
                    usage_events, conversations, audit_log, tenant_hits,
                    user_hits, now, env_steps, call, sent >>

\* a variant of the claim that assigns the ticket and leaves the
\* conversation as it is
ClaimedConversationsAsIs(convs, ks) == convs

\* claim_handoff, lines 569-579: the conversation of the ticket is paused
ClaimedConversations(convs, ks) ==
    [k \in DOMAIN convs |->
        IF k \in ks THEN [convs[k] EXCEPT !.ai_paused = TRUE] ELSE convs[k]]

\* claim_handoff
ClaimHandoff(handoff_id, requested_assignee, current_user) ==
    \E i \in TicketsOf(handoff_id, current_user) :
        LET row == handoffs[i]
        IN  /\ MayWriteHandoffs(current_user)
            /\ ~( /\ row.assigned_to_user_id # None
                  /\ row.assigned_to_user_id # current_user.id
                  /\ ~is_admin(current_user) )
            /\ ~( /\ requested_assignee # None
                  /\ requested_assignee # current_user.id
                  /\ ~is_admin(current_user) )
            /\ handoffs' =
                 [handoffs EXCEPT
                    ![i].assigned_to_user_id =
                        IF requested_assignee # None THEN requested_assignee
                        ELSE current_user.id,
                    ![i].status = IF @ = "new" THEN "open" ELSE @]
            /\ conversations' =
                 ClaimedConversations(conversations,
                                      TicketConversation(row, current_user))
            /\ UNCHANGED << documents, chunks, tenant_policies, usage_limits,
                            usage_events, audit_log, tenant_hits, user_hits,
                            now, env_steps, call, sent >>

\* handoff_ai_toggle
HandoffAiToggle(handoff_id, flag, current_user) ==
    \E i \in TicketsOf(handoff_id, current_user) :
        LET row == handoffs[i]
        IN  /\ MayWriteHandoffs(current_user)
            /\ ~( /\ row.assigned_to_user_id # None
                  /\ row.assigned_to_user_id # current_user.id
                  /\ ~is_admin(current_user) )
            /\ row.conversation_id # None
            /\ \E k \in TicketConversation(row, current_user) :
                  conversations' = [conversations EXCEPT ![k].ai_paused = flag]
            /\ handoffs' =
                 [handoffs EXCEPT
                    ![i].status = IF flag THEN "open" ELSE "pending_customer"]
            /\ UNCHANGED << documents, chunks, tenant_policies, usage_limits,
                            usage_events, audit_log, tenant_hits, user_hits,
                            now, env_steps, call, sent >>

\* the callers of the admin routes: the tenant admin, a support agent, and
\* the end user u1, who lacks the scope
Agents == {A1, S1, U1}

HandoffIds == { TicketIds[i] : i \in 1..Len(TicketIds) }

\* the requests of u1 on conversation k1
HandoffAskInputs == { <<U1, Payload(q, 5, "k1", 8)>> : q \in {Q_REFUND, Q_THANKS} }

\* what the generator returns to them: a cited answer, or a failure (the
\* question is looked up by keyword)
HandoffGenOutcomes == { o \in GenOutcomes : o.total_tokens = NoTokens }

HandoffInit ==
    /\ documents = InitDocuments
    /\ chunks = InitChunks
    /\ tenant_policies = NoRows
    /\ now = 0
    /\ env_steps = 0
    /\ call = [p \in Procs |-> IdleCall]
    /\ AfterOneRequest(Q_REFUND, AnsweredOutcome, FALSE, <<>>)

HandoffNext ==
    \/ \E conversation_id \in {"k1", None} : RequestHandoff(U1, conversation_id)
    \/ \E h \in HandoffIds, assignee \in {None, "s1"}, agent \in Agents :
          ClaimHandoff(h, assignee, agent)
    \/ \E h \in HandoffIds, flag \in BOOLEAN, agent \in Agents :
          HandoffAiToggle(h, flag, agent)
    \/ \E p \in Procs :
          \/ \E in \in HandoffAskInputs : AskStart(p, in[1], in[2], FALSE)
          \/ AskLookup(p)
          \/ \E o \in HandoffGenOutcomes : AskGenerate(p, o)

SpecHandoff == HandoffInit /\ [][HandoffNext]_vars

\* the tickets tied to conversation k
TicketsOn(k) == { i \in 1..Len(handoffs) : handoffs[i].conversation_id = k }

\* this step is a claim of a ticket tied to conversation k
ClaimOn(k) ==
    \E i \in TicketsOn(k), assignee \in {None, "s1"}, agent \in Agents :
        ClaimHandoff(handoffs[i].id, assignee, agent)

\* this step is an ai-toggle with ai_paused = false on ticket i
ToggledOff(i) ==
    \E agent \in Agents : HandoffAiToggle(handoffs[i].id, FALSE, agent)

\* what ask does with a request it starts in this step: the fixed answer
\* without retrieval or generation on a paused conversation, the pipeline
\* from the rate limiter on otherwise
AnswersByPause(p) ==
    Starts(p) =>
        IF conversations[call'[p].conversation_id].ai_paused
        THEN /\ call'[p].pc = "done"
             /\ call'[p].outcome.answer = PAUSED_ANSWER
             /\ call'[p].n_retrieval = 0
             /\ call'[p].n_generate = 0
        ELSE /\ "check_rate_limit" \in call'[p].steps
             /\ call'[p].pc = "done" => call'[p].outcome.answer # PAUSED_ANSWER

\* the parts of the lifecycle that do not depend on which ticket is toggled
PausedByClaimOnly(k) ==
    /\ ClaimOn(k) => conversations'[k].ai_paused
    /\ (\E i \in TicketsOn(k) : ToggledOff(i)) => ~conversations'[k].ai_paused
    /\ (Len(handoffs') > Len(handoffs)) => conversations' = conversations
    /\ \A p \in Procs : AnswersByPause(p)

\* the tickets tied to conversation k that an agent has claimed
ClaimedOn(k) == { i \in TicketsOn(k) : handoffs[i].assigned_to_user_id # None }

\* C30 (as stated): after a claim of a ticket tied to a conversation every
\* ask on it gets the fixed agent-is-handling answer, and the pause ends only
\* with an ai-toggle with ai_paused = false applied to that claimed ticket
C30_AsStated ==
    [][ \A k \in DOMAIN conversations :
          /\ PausedByClaimOnly(k)
          /\ ( /\ ClaimedOn(k) # {}
               /\ conversations[k].ai_paused
               /\ ~conversations'[k].ai_paused ) =>
                \E i \in ClaimedOn(k) : ToggledOff(i) ]_vars

\* C30: after a claim of a ticket tied to a conversation every ask on it gets
\* the fixed agent-is-handling answer, and the pause ends only with an
\* ai-toggle with ai_paused = false applied to a ticket tied to that
\* conversation, claimed or not; a ticket nobody has claimed does not pause
C30_TakeoverLifecycle ==
    [][ \A k \in DOMAIN conversations :
          /\ PausedByClaimOnly(k)
          /\ ( /\ ClaimedOn(k) # {}
               /\ conversations[k].ai_paused
               /\ ~conversations'[k].ai_paused ) =>
                \E i \in TicketsOn(k) : ToggledOff(i) ]_vars

\* a1 claimed the ticket of k1, the pause was then switched off on that
\* ticket, and the next request of u1 on k1 was answered from the documents
C30_Witness ==
    \E p \in Procs :
        /\ call[p].pc = "done"
        /\ call[p].conversation_id = "k1"
        /\ call[p].n_generate = 1
        /\ ~conversations["k1"].ai_paused
        /\ \E i \in TicketsOn("k1") :
              /\ handoffs[i].assigned_to_user_id = "a1"
              /\ handoffs[i].status = "pending_customer"

====
